---- MODULE Spec2Model ----
(***************************************************************************)
(* Clone task controller of the desktop client: the useClone hook          *)
(* (src/src/renderer/hooks/useClone.ts), the self-contained handleSubmit   *)
(* of CloneInput (src/src/renderer/components/CloneInput.tsx, first        *)
(* component of the file), the clone callbacks and cancel handler of       *)
(* AddRepoMenu, and the error classification of src/src/shared; and the    *)
(* entity store (repositories and their workspaces) under its callers,     *)
(* AddRepoMenu's open-project flow among them.                             *)
(*                                                                         *)
(* Text that the code inspects (URLs, error messages) is a sequence of     *)
(* one-character strings, so that trim, startsWith, endsWith, toLowerCase  *)
(* and includes are computed as the code computes them. Values the client  *)
(* never looks into (paths, task ids, workspace ids) are opaque.           *)
(*                                                                         *)
(* An action is one run of a handler or of an async function between two   *)
(* of its awaits. The specifications share the state:                      *)
(*   Spec        the hook with cloneUrl, cancelClone and resetCloneState   *)
(*   SpecApp     the hook as AddRepoMenu and CloneInput use it: cloneUrl,  *)
(*               and the progress toast's handleCancelClone                *)
(*   SpecLegacy  CloneInput with its own handleSubmit, and AddRepoMenu     *)
(*   SpecStore   addRepo, addWorkspace and deleteRepo called in any order, *)
(*               and AddRepoMenu.handleOpenProject                         *)
(*   SpecDetect  detectCloneErrorCode on one error text                    *)
(*   SpecSelect  the store's selection pointers beside its entities        *)
(*   SpecInput   useInputState on the selected session                     *)
(*   SpecHistory the command history of the selected workspace             *)
(*   SpecConnection  useStoreConnection under App                          *)
(*   SpecRpc     the RPC multiplexer over the connection                   *)
(*   SpecLive    the hook on fewer inputs, with renders committed and      *)
(*               requests settling (fairness)                              *)
(*   SpecTimeout promiseUtils.withTimeout                                  *)
(*   SpecRetry   promiseUtils.retryWithBackoff, fn settling (fairness)     *)
(***************************************************************************)
EXTENDS Integers, Sequences, FiniteSets, TLC

\* ---------------------------------------------------------------- bounds
\* Number of clone tasks one behaviour may create with the hook; a task's
\* id is the number of the cloneUrl invocation that generated it.
MaxCalls == 2
\* Number of clone tasks one behaviour may create with CloneInput.handleSubmit.
MaxSubmits == 2

NULL == "null"

Calls == 1..MaxCalls
Submits == 1..MaxSubmits

\* ------------------------------------------------------------------ text
Upper == <<"A","B","C","D","E","F","G","H","I","J","K","L","M","N","O","P","Q","R","S","T","U","V","W","X","Y","Z">>
Lower == <<"a","b","c","d","e","f","g","h","i","j","k","l","m","n","o","p","q","r","s","t","u","v","w","x","y","z">>

\* String.prototype.toLowerCase, one character.
LowerChar(c) ==
  IF \E k \in 1..Len(Upper) : Upper[k] = c
    THEN Lower[CHOOSE k \in 1..Len(Upper) : Upper[k] = c]
    ELSE c

toLowerCase(s) == [k \in 1..Len(s) |-> LowerChar(s[k])]

startsWith(s, p) == Len(s) >= Len(p) /\ SubSeq(s, 1, Len(p)) = p

endsWith(s, p) == Len(s) >= Len(p) /\ SubSeq(s, Len(s) - Len(p) + 1, Len(s)) = p

includes(s, p) ==
  \E k \in 0..(Len(s) - Len(p)) : SubSeq(s, k + 1, k + Len(p)) = p

IsSpace(c) == c = " "

RECURSIVE TrimStart(_)
TrimStart(s) ==
  IF s # <<>> /\ IsSpace(Head(s)) THEN TrimStart(Tail(s)) ELSE s

RECURSIVE TrimEnd(_)
TrimEnd(s) ==
  IF s # <<>> /\ IsSpace(s[Len(s)]) THEN TrimEnd(SubSeq(s, 1, Len(s) - 1)) ELSE s

\* String.prototype.trim
trim(s) == TrimEnd(TrimStart(s))

\* The locators a user may type.
UrlEmpty == <<>>
UrlBlank == <<" "," ">>
UrlBad == <<"b","a","d">>
UrlFtp == <<"f","t","p",":","/","/","h","/","r">>
UrlHttps == <<" ","h","t","t","p","s",":","/","/","h","/","r"," ">>
UrlHttp == <<"h","t","t","p",":","/","/","h","/","r">>
UrlSsh == <<"g","i","t","@","h",":","r">>
UrlDotGit == <<"r",".","g","i","t">>

Urls == {UrlEmpty, UrlBlank, UrlBad, UrlFtp, UrlHttps, UrlHttp, UrlSsh, UrlDotGit}

\* The locators the behaviours type: every way to be rejected, and one
\* accepted by each of a prefix and the suffix.
TypedUrls == {UrlEmpty, UrlBlank, UrlBad, UrlFtp, UrlHttps, UrlDotGit}

\* Error texts a response or a rejection may carry.
MsgCancelledByUser == <<"C","l","o","n","e"," ","o","p","e","r","a","t","i","o","n"," ","c","a","n","c","e","l","l","e","d"," ","b","y"," ","u","s","e","r">>
MsgAuthFailed == <<"f","a","t","a","l",":"," ","A","u","t","h","e","n","t","i","c","a","t","i","o","n"," ","f","a","i","l","e","d"," ","f","o","r"," ","h">>
MsgNotFound == <<"r","e","m","o","t","e",":"," ","R","e","p","o","s","i","t","o","r","y"," ","n","o","t"," ","f","o","u","n","d">>
MsgWeird == <<"b","o","o","m">>
\* (a timeout error worded without "timed out")
MsgExceeded == <<"C","l","o","n","e"," ","o","p","e","r","a","t","i","o","n"," ","e","x","c","e","e","d","e","d"," ","2","1","0","0","0","0","0","m","s">>
\* withTimeout(clonePromise, CLONE_TIMEOUT_MS, 'Clone operation')
MsgTimedOut == <<"C","l","o","n","e"," ","o","p","e","r","a","t","i","o","n"," ","t","i","m","e","d"," ","o","u","t"," ","a","f","t","e","r"," ","2","1","0","0","0","0","0","m","s">>
MsgCloneFailed == <<"C","l","o","n","e"," ","f","a","i","l","e","d">>
MsgUnknownError == <<"U","n","k","n","o","w","n"," ","e","r","r","o","r">>

ErrorTexts == {MsgCancelledByUser, MsgAuthFailed}

\* ------------------------------------------------------- cloneErrors.ts
CloneErrorCode ==
  { "CANCELLED", "SSH_AUTH_FAILED", "AUTH_REQUIRED", "NETWORK_ERROR",
    "REPO_NOT_FOUND", "TIMEOUT", "GIT_NOT_INSTALLED", "INVALID_URL",
    "DIR_EXISTS", "UNKNOWN" }

\* A detectCloneErrorCode that looks for a timeout before a network error.
detectTimeoutFirst(errorMessage) ==
  LET msg == toLowerCase(errorMessage) IN
  IF includes(msg, <<"c","a","n","c","e","l","l","e","d"," ","b","y"," ","u","s","e","r">>) THEN "CANCELLED"
  ELSE IF \/ includes(msg, <<"h","o","s","t"," ","k","e","y"," ","v","e","r","i","f","i","c","a","t","i","o","n"," ","f","a","i","l","e","d">>)
          \/ includes(msg, <<"p","e","r","m","i","s","s","i","o","n"," ","d","e","n","i","e","d"," ","(","p","u","b","l","i","c","k","e","y",")">>)
    THEN "SSH_AUTH_FAILED"
  ELSE IF \/ includes(msg, <<"a","u","t","h","e","n","t","i","c","a","t","i","o","n"," ","f","a","i","l","e","d">>)
          \/ includes(msg, <<"c","o","u","l","d"," ","n","o","t"," ","r","e","a","d"," ","u","s","e","r","n","a","m","e">>)
          \/ includes(msg, <<"c","o","u","l","d"," ","n","o","t"," ","r","e","a","d"," ","p","a","s","s","w","o","r","d">>)
    THEN "AUTH_REQUIRED"
  ELSE IF includes(msg, <<"t","i","m","e","d"," ","o","u","t">>) \/ includes(msg, <<"t","i","m","e","o","u","t">>)
    THEN "TIMEOUT"
  ELSE IF \/ includes(msg, <<"c","o","u","l","d"," ","n","o","t"," ","r","e","s","o","l","v","e"," ","h","o","s","t","n","a","m","e">>)
          \/ includes(msg, <<"n","e","t","w","o","r","k">>)
          \/ includes(msg, <<"c","o","n","n","e","c","t","i","o","n">>)
    THEN "NETWORK_ERROR"
  ELSE IF includes(msg, <<"n","o","t"," ","f","o","u","n","d">>) \/ includes(msg, <<"4","0","4">>)
    THEN "REPO_NOT_FOUND"
  ELSE IF \/ includes(msg, <<"g","i","t"," ","i","s"," ","n","o","t"," ","i","n","s","t","a","l","l","e","d">>)
          \/ includes(msg, <<"g","i","t",":"," ","c","o","m","m","a","n","d"," ","n","o","t"," ","f","o","u","n","d">>)
    THEN "GIT_NOT_INSTALLED"
  ELSE IF includes(msg, <<"i","n","v","a","l","i","d">>) /\ includes(msg, <<"u","r","l">>)
    THEN "INVALID_URL"
  ELSE IF includes(msg, <<"a","l","r","e","a","d","y"," ","e","x","i","s","t","s">>) THEN "DIR_EXISTS"
  ELSE "UNKNOWN"

detectCloneErrorCode(errorMessage) ==
  LET msg == toLowerCase(errorMessage) IN
  IF includes(msg, <<"c","a","n","c","e","l","l","e","d"," ","b","y"," ","u","s","e","r">>) THEN "CANCELLED"
  ELSE IF \/ includes(msg, <<"h","o","s","t"," ","k","e","y"," ","v","e","r","i","f","i","c","a","t","i","o","n"," ","f","a","i","l","e","d">>)
          \/ includes(msg, <<"p","e","r","m","i","s","s","i","o","n"," ","d","e","n","i","e","d"," ","(","p","u","b","l","i","c","k","e","y",")">>)
    THEN "SSH_AUTH_FAILED"
  ELSE IF \/ includes(msg, <<"a","u","t","h","e","n","t","i","c","a","t","i","o","n"," ","f","a","i","l","e","d">>)
          \/ includes(msg, <<"c","o","u","l","d"," ","n","o","t"," ","r","e","a","d"," ","u","s","e","r","n","a","m","e">>)
          \/ includes(msg, <<"c","o","u","l","d"," ","n","o","t"," ","r","e","a","d"," ","p","a","s","s","w","o","r","d">>)
    THEN "AUTH_REQUIRED"
  ELSE IF \/ includes(msg, <<"c","o","u","l","d"," ","n","o","t"," ","r","e","s","o","l","v","e"," ","h","o","s","t","n","a","m","e">>)
          \/ includes(msg, <<"n","e","t","w","o","r","k">>)
          \/ includes(msg, <<"c","o","n","n","e","c","t","i","o","n">>)
    THEN "NETWORK_ERROR"
  ELSE IF includes(msg, <<"n","o","t"," ","f","o","u","n","d">>) \/ includes(msg, <<"4","0","4">>)
    THEN "REPO_NOT_FOUND"
  ELSE IF includes(msg, <<"t","i","m","e","d"," ","o","u","t">>) \/ includes(msg, <<"t","i","m","e","o","u","t">>)
    THEN "TIMEOUT"
  ELSE IF \/ includes(msg, <<"g","i","t"," ","i","s"," ","n","o","t"," ","i","n","s","t","a","l","l","e","d">>)
          \/ includes(msg, <<"g","i","t",":"," ","c","o","m","m","a","n","d"," ","n","o","t"," ","f","o","u","n","d">>)
    THEN "GIT_NOT_INSTALLED"
  ELSE IF includes(msg, <<"i","n","v","a","l","i","d">>) /\ includes(msg, <<"u","r","l">>)
    THEN "INVALID_URL"
  ELSE IF includes(msg, <<"a","l","r","e","a","d","y"," ","e","x","i","s","t","s">>) THEN "DIR_EXISTS"
  ELSE "UNKNOWN"

\* CloneErrorMessages: the user-friendly message of each error code
CloneErrorMessages ==
  [ c \in CloneErrorCode |->
      CASE c = "CANCELLED" -> <<"C","l","o","n","e"," ","o","p","e","r","a","t","i","o","n"," ","c","a","n","c","e","l","l","e","d"," ","b","y"," ","u","s","e","r">>
        [] c = "SSH_AUTH_FAILED" ->
             <<"S","S","H"," ","a","u","t","h","e","n","t","i","c","a","t","i","o","n"," ","f","a","i","l","e","d","."," ","P","l","e","a","s","e"," ","e","n","s","u","r","e"," ","y","o","u","r"," ","S","S","H"," ","k","e","y","s"," ","a","r","e"," ","p","r","o","p","e","r","l","y"," ","c","o","n","f","i","g","u","r","e","d",".">>
        [] c = "AUTH_REQUIRED" ->
             <<"A","u","t","h","e","n","t","i","c","a","t","i","o","n"," ","r","e","q","u","i","r","e","d","."," ","T","h","i","s"," ","i","s"," ","a"," ","p","r","i","v","a","t","e"," ","r","e","p","o","s","i","t","o","r","y",".">>
             \o <<"\n">>
             \o <<"P","l","e","a","s","e"," ","u","s","e"," ","S","S","H"," ","U","R","L"," ","w","i","t","h"," ","c","o","n","f","i","g","u","r","e","d"," ","S","S","H"," ","k","e","y","s",","," ","o","r"," ","u","s","e"," ">>
             \o <<"\"">> \o <<"g","i","t"," ","c","l","o","n","e">> \o <<"\"">>
             \o <<" ","i","n"," ","t","e","r","m","i","n","a","l"," ","t","o"," ","e","n","t","e","r"," ","c","r","e","d","e","n","t","i","a","l","s",".">>
        [] c = "NETWORK_ERROR" ->
             <<"N","e","t","w","o","r","k"," ","e","r","r","o","r","."," ","P","l","e","a","s","e"," ","c","h","e","c","k"," ","y","o","u","r"," ","i","n","t","e","r","n","e","t"," ","c","o","n","n","e","c","t","i","o","n"," ","a","n","d"," ","t","r","y"," ","a","g","a","i","n",".">>
        [] c = "REPO_NOT_FOUND" ->
             <<"R","e","p","o","s","i","t","o","r","y"," ","n","o","t"," ","f","o","u","n","d"," ","o","r"," ","a","c","c","e","s","s"," ","d","e","n","i","e","d","."," ","P","l","e","a","s","e"," ","c","h","e","c","k"," ","t","h","e"," ","U","R","L"," ","a","n","d"," ","y","o","u","r"," ","p","e","r","m","i","s","s","i","o","n","s",".">>
        [] c = "TIMEOUT" ->
             <<"C","l","o","n","e"," ","o","p","e","r","a","t","i","o","n"," ","t","i","m","e","d"," ","o","u","t","."," ","T","h","e"," ","r","e","p","o","s","i","t","o","r","y"," ","m","i","g","h","t"," ","b","e"," ","t","o","o"," ","l","a","r","g","e"," ","o","r"," ","t","h","e"," ","c","o","n","n","e","c","t","i","o","n"," ","i","s"," ","s","l","o","w",".">>
             \o <<"\n">> \o <<"P","l","e","a","s","e"," ","t","r","y"," ","a","g","a","i","n",".">>
        [] c = "GIT_NOT_INSTALLED" ->
             <<"G","i","t"," ","i","s"," ","n","o","t"," ","i","n","s","t","a","l","l","e","d","."," ","P","l","e","a","s","e"," ","i","n","s","t","a","l","l"," ","G","i","t"," ","f","r","o","m"," ","h","t","t","p","s",":","/","/","g","i","t","-","s","c","m",".","c","o","m","/">>
        [] c = "INVALID_URL" ->
             <<"I","n","v","a","l","i","d"," ","G","i","t"," ","r","e","p","o","s","i","t","o","r","y"," ","U","R","L","."," ","P","l","e","a","s","e"," ","u","s","e"," ","H","T","T","P","S"," ","o","r"," ","S","S","H"," ","f","o","r","m","a","t",".">>
        [] c = "DIR_EXISTS" ->
             <<"D","i","r","e","c","t","o","r","y"," ","a","l","r","e","a","d","y"," ","e","x","i","s","t","s"," ","a","t"," ","d","e","s","t","i","n","a","t","i","o","n","."," ","P","l","e","a","s","e"," ","c","h","o","o","s","e"," ","a"," ","d","i","f","f","e","r","e","n","t"," ","l","o","c","a","t","i","o","n"," ","o","r"," ","r","e","m","o","v","e"," ","t","h","e"," ","e","x","i","s","t","i","n","g"," ","d","i","r","e","c","t","o","r","y",".">>
        [] OTHER ->
             <<"F","a","i","l","e","d"," ","t","o"," ","c","l","o","n","e"," ","r","e","p","o","s","i","t","o","r","y","."," ","P","l","e","a","s","e"," ","c","h","e","c","k"," ","t","h","e"," ","U","R","L"," ","a","n","d"," ","t","r","y"," ","a","g","a","i","n",".">> ]

\* ------------------------------------------------------------- the state
VARIABLES
  \* store: the clone task record, and the entity store
  cloneState, repos, workspaces,
  \* useClone: its refs; whether the signal of the controller held by
  \* abortControllerRef is aborted; the status its committed render closed
  \* over; whether its progress handler is subscribed
  currentTaskIdRef, abortControllerRef, signalAborted, renderedStatus, subscribed,
  \* one cloneUrl invocation per task slot: where it is suspended, its locals
  pc, url, path,
  \* AddRepoMenu: isCloning, cloneProgress, currentTaskId; the task ids of
  \* the git.clone.cancel requests handleCancelClone is awaiting
  menu, cancelReqs,
  \* CloneInput with its own handleSubmit: invocations, AddRepoMenu's
  \* cloneDialogOpen (the component's open), the component's isCloning and
  \* currentTaskIdRef, the task ids of the handlers it subscribed
  lpc, lpath, lOpen, lIsCloning, lTaskIdRef, lHandlers,
  \* what the last step did: its name and task, the toasts it added, the
  \* callbacks it invoked, the requests it sent
  step, toasts, callbacks, sent,
  \* history: the tasks cancelClone has marked cancelled
  cancelledTasks,
  \* AddRepoMenu.handleOpenProject: isLoading, where the invocation is
  \* suspended, its selectedPath, the paths of the repos its closure holds
  \* (the locals are kept only as long as the invocation reads them)
  isLoading, opc, selectedPath, closureRepos,
  \* its loadingToastId, and the loading toasts the toast manager shows
  loadingToastId, loadingToasts,
  \* the last call of a store action: its name, its arguments, whether it
  \* failed, the repoPath the workspace id had before it, and how many
  \* workspaces had the path as repoPath before it
  storeCall,
  \* a classification of an error text: the text, and the code found
  errorText, detected,
  \* store: the selection pointers
  selectedRepoPath, selectedWorkspaceId, selectedSessionId,
  \* store: the input state of the sessions, the history of the workspaces
  inputBySession, historyByWorkspace,
  \* useStoreConnection: its hasInitialized ref, where its init() is
  \* suspended, how often its effect ran; the store's connection state;
  \* how often connect and initialize were called
  hasInitialized, initPc, effectRuns, connectionState, connectCalls, initializeCalls,
  \* RPC multiplexer: the ids of the pending entries, what each request's
  \* caller was given, the id of the next request; how often the
  \* connection delivered a response with each id
  pending, settles, nextRequest, deliveries,
  \* promiseUtils: the withTimeout calls (the promise given, the timer,
  \* timeoutId, what the returned promise settled with), and one
  \* retryWithBackoff call
  timeouts, retry

\* Bounds: runs of the connection effect, requests issued, deliveries of
\* a response with one id.
MaxEffectRuns == 3
MaxRequests == 3
MaxDeliveries == 2
\* withTimeout calls in one behaviour.
MaxTimers == 3
\* The largest maxRetries given to retryWithBackoff (its default is 3).
MaxRetries == 3

entities == <<repos, workspaces>>
refs == <<currentTaskIdRef, abortControllerRef, signalAborted>>
slots == <<pc, url, path>>
hookVars == <<refs, renderedStatus, subscribed, slots>>
legacyVars == <<lpc, lpath, lOpen, lIsCloning, lTaskIdRef, lHandlers>>
outVars == <<step, toasts, callbacks, sent>>
openVars ==
  <<isLoading, opc, selectedPath, closureRepos, loadingToastId, loadingToasts>>
detectVars == <<errorText, detected>>
\* what the clone controller and the entity store's callers never touch
selection == <<selectedRepoPath, selectedWorkspaceId, selectedSessionId>>
inputVars == <<inputBySession, historyByWorkspace>>
connVars ==
  <<hasInitialized, initPc, effectRuns, connectionState, connectCalls, initializeCalls>>
rpcVars == <<pending, settles, nextRequest, deliveries>>
utilVars == <<timeouts, retry>>
apart == <<detectVars, selection, inputVars, connVars, rpcVars, utilVars>>
vars == <<cloneState, entities, hookVars, menu, cancelReqs, legacyVars, outVars,
          cancelledTasks, openVars, storeCall, apart>>

\* useRef<string | null>(null): no task
NoTask == 0
\* a text field holding null
NoText == <<NULL>>

\* A task id no clone of this client generated.
StrayTask == MaxCalls + MaxSubmits + 1

Statuses == {"idle", "cloning", "success", "failed", "cancelled"}

\* Destinations the directory picker may return; NULL and "" are falsy.
Locations == {NULL, "", "/d"}
\* Where the backend may report the clone.
ClonePaths == {"/d/r"}
WorkspaceIds == {"w1"}

\* git.clone.progress percent values, a sequence of no number (a payload
\* without percent) or one, in tenths (454 is 45.4).
Percents == {<<>>, <<-15>>, <<454>>, <<990>>, <<1504>>}

\* JavaScript truthiness of a text, a path, a number in tenths
TruthyText(s) == s # NoText /\ s # <<>>
\* (a truthiness test that forgets null)
TruthyStrButNull(s) == s # ""

TruthyStr(s) == s # NULL /\ s # ""

\* Math.round(data.percent || 0), percent in tenths: floor(x + 0.5)
RoundPercent(p) == IF p = <<>> \/ p[1] = 0 THEN 0 ELSE (p[1] + 5) \div 10

\* ------------------------------------------------------------- the store
InitialCloneState ==
  [ taskId |-> NoTask, url |-> NoText, destination |-> NULL, status |-> "idle",
    progress |-> 0, error |-> NoText, errorCode |-> NULL, clonePath |-> NULL ]

\* updateCloneState(updates): the given fields replace the record's
updateCloneState(cs, updates) ==
  [f \in DOMAIN cs |-> IF f \in DOMAIN updates THEN updates[f] ELSE cs[f]]

\* The entity store as a record [repos, workspaces, threw].
\* addRepo(repo): fails if repo.path is present, otherwise inserts.
addRepoOverwrites(st, repoData, throws) ==
  [st EXCEPT !.repos =
     [p \in DOMAIN st.repos \cup {repoData.path} |->
        IF p = repoData.path THEN repoData.workspaceIds ELSE st.repos[p]]]

addRepo(st, repoData, throws) ==
  IF repoData.path \in DOMAIN st.repos
    THEN [st EXCEPT !.threw = throws]
    ELSE [st EXCEPT !.repos =
            [p \in DOMAIN st.repos \cup {repoData.path} |->
               IF p = repoData.path THEN repoData.workspaceIds ELSE st.repos[p]]]

\* An addWorkspace that appends the id whether or not the list has it.
addWorkspaceAppends(st, ws, throws) ==
  IF ws.repoPath \notin DOMAIN st.repos
    THEN [st EXCEPT !.threw = throws]
    ELSE [st EXCEPT
            !.workspaces =
              [w \in DOMAIN st.workspaces \cup {ws.id} |->
                 IF w = ws.id THEN ws.repoPath ELSE st.workspaces[w]],
            !.repos[ws.repoPath] = Append(@, ws.id)]

\* An addWorkspace that inserts the workspace of a missing repository.
addWorkspaceOrphan(st, ws, throws) ==
  IF ws.repoPath \notin DOMAIN st.repos
    THEN [st EXCEPT
            !.threw = throws,
            !.workspaces =
              [w \in DOMAIN st.workspaces \cup {ws.id} |->
                 IF w = ws.id THEN ws.repoPath ELSE st.workspaces[w]]]
    ELSE [st EXCEPT
            !.workspaces =
              [w \in DOMAIN st.workspaces \cup {ws.id} |->
                 IF w = ws.id THEN ws.repoPath ELSE st.workspaces[w]],
            !.repos[ws.repoPath] =
              IF \E k \in 1..Len(@) : @[k] = ws.id THEN @ ELSE Append(@, ws.id)]

\* addWorkspace(ws): fails if the repository does not exist, otherwise
\* inserts the workspace and appends its id to the parent's workspaceIds.
addWorkspace(st, ws, throws) ==
  IF ws.repoPath \notin DOMAIN st.repos
    THEN [st EXCEPT !.threw = throws]
    ELSE [st EXCEPT
            !.workspaces =
              [w \in DOMAIN st.workspaces \cup {ws.id} |->
                 IF w = ws.id THEN ws.repoPath ELSE st.workspaces[w]],
            !.repos[ws.repoPath] =
              IF \E k \in 1..Len(@) : @[k] = ws.id THEN @ ELSE Append(@, ws.id)]

\* A deleteRepo that removes the repository and leaves its workspaces.
deleteRepoOnly(st, p) ==
  [st EXCEPT !.repos = [q \in DOMAIN st.repos \ {p} |-> st.repos[q]]]

\* deleteRepo(path): removes the repository and, in the same update, every
\* workspace whose repoPath is path.
deleteRepo(st, p) ==
  [st EXCEPT
     !.repos = [q \in DOMAIN st.repos \ {p} |-> st.repos[q]],
     !.workspaces =
       [w \in {x \in DOMAIN st.workspaces : st.workspaces[x] # p} |->
          st.workspaces[w]]]

\* for (const workspace of workspaces) addWorkspace(workspace), until one throws
RECURSIVE AddWorkspaces(_, _, _)
AddWorkspaces(st, list, throws) ==
  IF list = <<>> \/ st.threw THEN st
  ELSE AddWorkspaces(addWorkspace(st, Head(list), throws), Tail(list), throws)

\* ------------------------------------------------------- AddRepoMenu.tsx
InitialMenu == [isCloning |-> FALSE, cloneProgress |-> 0, currentTaskId |-> NoTask]

handleCloneStart(m, progress, taskId) ==
  [isCloning |-> TRUE, cloneProgress |-> progress, currentTaskId |-> taskId]

handleCloneComplete(m) ==
  [isCloning |-> FALSE, cloneProgress |-> 0, currentTaskId |-> NoTask]

OnCloneStart(progress, taskId) ==
  [fn |-> "onCloneStart", progress |-> progress, taskId |-> taskId]

OnCloneComplete == [fn |-> "onCloneComplete", progress |-> 0, taskId |-> NoTask]

\* The menu after the callbacks a step invoked, in order.
RECURSIVE ApplyCallbacks(_, _)
ApplyCallbacks(m, cs) ==
  IF cs = <<>> THEN m
  ELSE ApplyCallbacks(
         IF Head(cs).fn = "onCloneStart"
           THEN handleCloneStart(m, Head(cs).progress, Head(cs).taskId)
           ELSE handleCloneComplete(m),
         Tail(cs))

Toast(title, type, task) == [title |-> title, type |-> type, task |-> task]

Request(method, task) == [method |-> method, task |-> task]

\* What a step leaves in the record of the last step.
Did(name, task, ts, cs, rs) ==
  /\ step' = [op |-> name, task |-> task]
  /\ toasts' = ts
  /\ callbacks' = cs
  /\ sent' = rs
  /\ menu' = ApplyCallbacks(menu, cs)
  /\ UNCHANGED <<openVars, storeCall, apart>>

\* No timer; a withTimeout call not made; retryWithBackoff not called.
NoTimer == 0
NoTimeout == [called |-> FALSE, promise |-> <<>>, operationName |-> <<>>,
              timer |-> "none", timeoutId |-> NoTimer, result |-> <<>>]
NoRetry == [pc |-> "none", maxRetries |-> 0, attempt |-> 0, calls |-> 0,
            rejection |-> <<>>, lastError |-> <<>>, delay |-> 0,
            outcome |-> <<>>]

\* No store action has been called.
NoCall ==
  [op |-> "none", path |-> NULL, id |-> NULL, failed |-> FALSE,
   prev |-> NULL, owned |-> 0]

Init ==
  /\ cloneState = InitialCloneState
  /\ repos = <<>>
  /\ workspaces = <<>>
  /\ currentTaskIdRef = NoTask
  /\ abortControllerRef = NoTask
  /\ signalAborted = FALSE
  /\ renderedStatus = "idle"
  /\ subscribed = FALSE
  /\ pc = [i \in Calls |-> "idle"]
  /\ url = [i \in Calls |-> NoText]
  /\ path = [i \in Calls |-> NULL]
  /\ menu = InitialMenu
  /\ cancelReqs = {}
  /\ lpc = [i \in Submits |-> "idle"]
  /\ lpath = [i \in Submits |-> NULL]
  /\ lOpen = FALSE
  /\ lIsCloning = FALSE
  /\ lTaskIdRef = NoTask
  /\ lHandlers = {}
  /\ step = [op |-> "init", task |-> NoTask]
  /\ toasts = <<>>
  /\ callbacks = <<>>
  /\ sent = <<>>
  /\ cancelledTasks = {}
  /\ isLoading = FALSE
  /\ opc = "idle"
  /\ selectedPath = NULL
  /\ closureRepos = {}
  /\ loadingToastId = NULL
  /\ loadingToasts = {}
  /\ storeCall = NoCall
  /\ errorText = NoText
  /\ detected = NULL
  /\ selectedRepoPath = NULL
  /\ selectedWorkspaceId = NULL
  /\ selectedSessionId = NULL
  /\ inputBySession = <<>>
  /\ historyByWorkspace = <<>>
  /\ hasInitialized = FALSE
  /\ initPc = "none"
  /\ effectRuns = 0
  /\ connectionState = "disconnected"
  /\ connectCalls = 0
  /\ initializeCalls = 0
  /\ pending = {}
  /\ settles = [i \in 1..MaxRequests |-> <<>>]
  /\ nextRequest = 1
  /\ deliveries = [i \in 1..(MaxRequests + 1) |-> 0]
  /\ timeouts = [k \in 1..MaxTimers |-> NoTimeout]
  /\ retry = NoRetry

\* ---------------------------------------------------------- useClone.ts
\* React commits the render a store update caused, and runs its effects,
\* before it handles the next event: every handler below starts with
\* cloneState.status as its closure has it equal to the store's.
Flushed == renderedStatus = cloneState.status

\* (any scheme accepted instead of the two prefixes)
validateGitUrlAnyScheme(u) ==
  LET trimmedUrl == trim(u) IN
    \/ includes(trimmedUrl, <<":","/","/">>)
    \/ startsWith(trimmedUrl, <<"g","i","t","@">>)
    \/ endsWith(trimmedUrl, <<".","g","i","t">>)

validateGitUrl(u) ==
  LET trimmedUrl == trim(u) IN
    \/ startsWith(trimmedUrl, <<"h","t","t","p",":","/","/">>)
    \/ startsWith(trimmedUrl, <<"h","t","t","p","s",":","/","/">>)
    \/ startsWith(trimmedUrl, <<"g","i","t","@">>)
    \/ endsWith(trimmedUrl, <<".","g","i","t">>)

\* cloneUrl's url.trim() and validateGitUrl(trimmedUrl), tabulated over the
\* locators.
TrimmedUrl == [u \in Urls |-> trim(u)]

ValidUrl == [u \in Urls |-> validateGitUrl(trim(u))]

\* The first effect of the hook: subscribe handleProgress to git.clone.progress.
Mount ==
  /\ ~subscribed
  /\ subscribed' = TRUE
  /\ Did("mount", NoTask, <<>>, <<>>, <<>>)
  /\ UNCHANGED <<cloneState, entities, refs, renderedStatus, slots, cancelReqs,
                 legacyVars, cancelledTasks>>

\* The second effect of the hook, deps [cloneState.status, request]: when a
\* render commits a changed status, the cleanup of the previous render's
\* effect runs with the status that render closed over.
Render ==
  /\ subscribed
  /\ ~Flushed
  /\ renderedStatus' = cloneState.status
  /\ IF currentTaskIdRef # NoTask /\ renderedStatus = "cloning"
       THEN Did("cleanup", currentTaskIdRef, <<>>, <<>>,
                <<Request("git.clone.cancel", currentTaskIdRef)>>)
       ELSE Did("render", NoTask, <<>>, <<>>, <<>>)
  /\ UNCHANGED <<cloneState, entities, refs, subscribed, slots, cancelReqs,
                 legacyVars, cancelledTasks>>

\* handleProgress of the hook
HandleProgress(taskId, percent) ==
  /\ subscribed
  /\ Flushed
  /\ IF taskId = currentTaskIdRef
       THEN Did("progress", taskId, <<>>,
                <<OnCloneStart(RoundPercent(percent), taskId)>>, <<>>)
       ELSE Did("progressIgnored", NoTask, <<>>, <<>>, <<>>)
  /\ UNCHANGED <<cloneState, entities, hookVars, cancelReqs, legacyVars,
                 cancelledTasks>>

\* (a guard that lets only an idle record start a clone)
CloneUrlFromIdleOnly(u, electron) ==
  /\ subscribed
  /\ Flushed
  /\ LET trimmedUrl == TrimmedUrl[u] IN
     IF trimmedUrl = <<>> \/ renderedStatus # "idle"
       THEN /\ Did("cloneUrlIgnored", NoTask, <<>>, <<>>, <<>>)
            /\ UNCHANGED slots
     ELSE IF ~ValidUrl[u]
       THEN /\ Did("cloneUrlInvalid", NoTask,
                   <<Toast("Invalid URL", "error", NoTask)>>, <<>>, <<>>)
            /\ UNCHANGED slots
     ELSE IF ~electron
       THEN /\ Did("cloneUrlNoPicker", NoTask,
                   <<Toast("Error", "error", NoTask)>>, <<>>, <<>>)
            /\ UNCHANGED slots
     ELSE \E i \in Calls :
            /\ pc[i] = "idle"
            /\ \A j \in Calls : pc[j] = "idle" => i <= j
            /\ pc' = [pc EXCEPT ![i] = "picker"]
            /\ url' = [url EXCEPT ![i] = trimmedUrl]
            /\ path' = path
            /\ Did("selectCloneLocation", i, <<>>, <<>>, <<>>)
  /\ UNCHANGED <<cloneState, entities, refs, renderedStatus, subscribed,
                 cancelReqs, legacyVars, cancelledTasks>>

\* cloneUrl(u), up to its first suspension: the await of the directory
\* picker. electron is whether window.electron.selectCloneLocation exists.
CloneUrl(u, electron) ==
  /\ subscribed
  /\ Flushed
  /\ LET trimmedUrl == TrimmedUrl[u] IN
     IF trimmedUrl = <<>> \/ renderedStatus = "cloning"
       THEN /\ Did("cloneUrlIgnored", NoTask, <<>>, <<>>, <<>>)
            /\ UNCHANGED slots
     ELSE IF ~ValidUrl[u]
       THEN /\ Did("cloneUrlInvalid", NoTask,
                   <<Toast("Invalid URL", "error", NoTask)>>, <<>>, <<>>)
            /\ UNCHANGED slots
     ELSE IF ~electron
       THEN /\ Did("cloneUrlNoPicker", NoTask,
                   <<Toast("Error", "error", NoTask)>>, <<>>, <<>>)
            /\ UNCHANGED slots
     ELSE \E i \in Calls :
            /\ pc[i] = "idle"
            /\ \A j \in Calls : pc[j] = "idle" => i <= j
            /\ pc' = [pc EXCEPT ![i] = "picker"]
            /\ url' = [url EXCEPT ![i] = trimmedUrl]
            /\ path' = path
            /\ Did("selectCloneLocation", i, <<>>, <<>>, <<>>)
  /\ UNCHANGED <<cloneState, entities, refs, renderedStatus, subscribed,
                 cancelReqs, legacyVars, cancelledTasks>>

\* cloneUrl resumed with the picker's answer, up to the await of git.clone.
PickerReturns(i, cloneLocation) ==
  /\ Flushed
  /\ pc[i] = "picker"
  /\ IF ~TruthyStr(cloneLocation)
       THEN /\ pc' = [pc EXCEPT ![i] = "idle"]
            /\ url' = [url EXCEPT ![i] = NoText]
            /\ Did("pickerCancelled", NoTask, <<>>, <<>>, <<>>)
            /\ UNCHANGED <<cloneState, refs>>
       ELSE /\ currentTaskIdRef' = i
            /\ abortControllerRef' = i
            /\ signalAborted' = FALSE
            /\ cloneState' = updateCloneState(cloneState,
                 [ taskId |-> i, url |-> url[i], destination |-> cloneLocation,
                   status |-> "cloning", progress |-> 0, error |-> NoText,
                   errorCode |-> NULL, clonePath |-> NULL ])
            /\ pc' = [pc EXCEPT ![i] = "clone"]
            /\ url' = [url EXCEPT ![i] = NoText]
            /\ Did("cloneStarted", i, <<>>,
                   <<OnCloneStart(0, i)>>, <<Request("git.clone", i)>>)
  /\ UNCHANGED <<entities, renderedStatus, subscribed, path, cancelReqs,
                 legacyVars, cancelledTasks>>

\* How the promise of withTimeout(request('git.clone', ...)) may resolve.
CloneResolutions ==
  { [kind |-> "resolve", success |-> TRUE, data |-> p, error |-> NoText,
     errorCode |-> NULL] : p \in ClonePaths \cup {NULL} }
  \cup
  { [kind |-> "resolve", success |-> FALSE, data |-> NULL, error |-> e,
     errorCode |-> c] :
       e \in ErrorTexts \cup {NoText}, c \in {NULL, "CANCELLED", "AUTH_REQUIRED"} }

\* reject(new Error(message)), the timeout of withTimeout among them; <<>>
\* is an Error with an empty message, NoText a rejection with a value that
\* is no Error.
CloneRejections ==
  { [kind |-> "reject", success |-> FALSE, data |-> NULL, error |-> e,
     errorCode |-> NULL] : e \in ErrorTexts \cup {MsgTimedOut, <<>>, NoText} }

CloneOutcomes == CloneResolutions \cup CloneRejections

\* if (!cloneResponse.success || !cloneResponse.data)
ResponseFailed(o) == o.kind = "resolve" /\ (~o.success \/ ~TruthyStr(o.data))

\* (cloneResponse.errorCode || 'UNKNOWN')
ResponseCode(o) == IF TruthyStr(o.errorCode) THEN o.errorCode ELSE "UNKNOWN"

\* cloneResponse.error || 'Clone failed'
ResponseText(o) == IF TruthyText(o.error) THEN o.error ELSE MsgCloneFailed

\* error instanceof Error ? error.message : 'Unknown error', for what the
\* try block threw or the promise rejected with
CaughtMessage(o) ==
  IF o.kind = "resolve" THEN ResponseText(o)
  ELSE IF o.error = NoText THEN MsgUnknownError ELSE o.error

\* detectCloneErrorCode(errorMessage), tabulated over the messages the catch
\* block can see.
DetectedCode == [o \in CloneOutcomes |-> detectCloneErrorCode(CaughtMessage(o))]

\* (every failure ends failed)
StatusOfAnyFailure(errorCode) == "failed"

StatusOf(errorCode) == IF errorCode = "CANCELLED" THEN "cancelled" ELSE "failed"

\* The record after the failure branch of the try block.
AfterFailedResponse(cs, o) ==
  updateCloneState(cs, [ status |-> StatusOf(ResponseCode(o)),
                         error |-> ResponseText(o),
                         errorCode |-> ResponseCode(o) ])

\* The catch block: the record after it, given
\* abortControllerRef.current?.signal.aborted
AfterCatch(cs, o, isAborted) ==
  IF isAborted THEN cs
  ELSE updateCloneState(cs,
         [ status |-> StatusOf(DetectedCode[o]),
           error |-> CaughtMessage(o),
           errorCode |-> DetectedCode[o] ])

\* getCloneErrorMessage: customMessage || CloneErrorMessages[errorCode]
getCloneErrorMessage(errorCode, customMessage) ==
  IF TruthyText(customMessage) THEN customMessage
  ELSE CloneErrorMessages[errorCode]

\* handleCloneError: the toasts it adds, the one of a failure with its
\* description
handleCloneError(i, o) ==
  IF DetectedCode[o] # "CANCELLED"
    THEN << [ title |-> "Clone Failed", type |-> "error", task |-> i,
              description |->
                getCloneErrorMessage(DetectedCode[o], CaughtMessage(o)) ] >>
    ELSE <<>>

\* The toasts of the catch block
CatchToasts(i, o, isAborted) ==
  IF isAborted THEN <<>> ELSE handleCloneError(i, o)

\* (a success that records the path only)
AfterSuccessPathOnly(cs, clonePath) ==
  updateCloneState(cs, [clonePath |-> clonePath])

\* The record after a successful response.
AfterSuccess(cs, clonePath) ==
  updateCloneState(cs, [status |-> "success", progress |-> 100,
                        clonePath |-> clonePath])

\* (a finally block that does not call onCloneComplete)
FinallySilent(i, name, ts) ==
  /\ currentTaskIdRef' = NoTask
  /\ abortControllerRef' = NoTask
  /\ signalAborted' = FALSE
  /\ pc' = [pc EXCEPT ![i] = "done"]
  /\ path' = [path EXCEPT ![i] = NULL]
  /\ url' = url
  /\ Did(name, i, ts, <<>>, <<>>)

\* The finally block of cloneUrl.
Finally(i, name, ts) ==
  /\ currentTaskIdRef' = NoTask
  /\ abortControllerRef' = NoTask
  /\ signalAborted' = FALSE
  /\ pc' = [pc EXCEPT ![i] = "done"]
  /\ path' = [path EXCEPT ![i] = NULL]
  /\ url' = url
  /\ Did(name, i, ts, <<OnCloneComplete>>, <<>>)

\* cloneUrl resumed with the outcome of git.clone: to the end of the
\* invocation, or to the await of project.getRepoInfo.
CloneSettles(i, o) ==
  /\ Flushed
  /\ pc[i] = "clone"
  /\ LET isAborted == abortControllerRef # NoTask /\ signalAborted IN
     IF ResponseFailed(o) /\ ResponseCode(o) = "CANCELLED"
       THEN /\ cloneState' = AfterFailedResponse(cloneState, o)
            /\ Finally(i, "cloneCancelled",
                       <<Toast("Clone cancelled", "info", i)>>)
     ELSE IF ResponseFailed(o)
       THEN /\ cloneState' =
                 AfterCatch(AfterFailedResponse(cloneState, o), o, isAborted)
            /\ Finally(i, "cloneFailed", CatchToasts(i, o, isAborted))
     ELSE IF o.kind = "reject"
       THEN /\ cloneState' = AfterCatch(cloneState, o, isAborted)
            /\ Finally(i, "cloneRejected", CatchToasts(i, o, isAborted))
     ELSE /\ cloneState' = AfterSuccess(cloneState, o.data)
          /\ path' = [path EXCEPT ![i] = o.data]
          /\ pc' = [pc EXCEPT ![i] = "repoInfo"]
          /\ Did("cloneSucceeded", i, <<>>, <<>>,
                 <<Request("project.getRepoInfo", i)>>)
          /\ UNCHANGED <<refs, url>>
  /\ UNCHANGED <<entities, renderedStatus, subscribed, cancelReqs, legacyVars,
                 cancelledTasks>>

\* How request('project.getRepoInfo', {cwd}) may settle; repoData is a
\* sequence of no or one record.
RepoInfoOutcomes ==
  { [kind |-> "resolve", success |-> TRUE, repoData |-> <<[path |-> p, workspaceIds |-> <<>>]>>] :
      p \in ClonePaths }
  \cup
  { [kind |-> k, success |-> FALSE, repoData |-> <<>>] : k \in {"resolve", "reject"} }
  \cup
  { [kind |-> "resolve", success |-> TRUE, repoData |-> <<>>] }

Workspace(id, repoPath) == [id |-> id, repoPath |-> repoPath]

\* Lists project.workspaces.list may answer with: the second one starts with
\* a workspace of a repository the store does not have.
WorkspaceLists ==
  { <<>> }
  \cup { <<Workspace(w, p)>> : w \in WorkspaceIds, p \in ClonePaths }
  \cup { <<Workspace("w0", "/gone"), Workspace(w, p)>> :
           w \in WorkspaceIds, p \in ClonePaths }

\* How request('project.workspaces.list', {cwd}) may settle; hasList is
\* whether data.workspaces is there.
WorkspacesOutcomes ==
  { [kind |-> "resolve", success |-> TRUE, hasList |-> TRUE, workspaces |-> l] :
      l \in WorkspaceLists }
  \cup
  { [kind |-> k, success |-> FALSE, hasList |-> FALSE, workspaces |-> <<>>] :
      k \in {"resolve", "reject"} }

Store == [repos |-> repos, workspaces |-> workspaces, threw |-> FALSE]

Warning(i) == Toast("Warning", "warning", i)

\* if (!repoInfoResponse.success || !repoInfoResponse.data?.repoData) throw,
\* or the request rejected
RepoInfoFailed(o) == o.kind = "reject" \/ ~o.success \/ o.repoData = <<>>

\* addRepositoryToStore resumed with the answer of project.getRepoInfo.
\* throws is whether a store action that fails throws.
RepoInfoSettles(i, o, throws) ==
  /\ Flushed
  /\ pc[i] = "repoInfo"
  /\ IF RepoInfoFailed(o)
       THEN /\ Finally(i, "followUpFailed", <<Warning(i)>>)
            /\ UNCHANGED repos
       ELSE LET st == addRepo(Store, o.repoData[1], throws) IN
            /\ repos' = st.repos
            /\ IF st.threw
                 THEN Finally(i, "followUpFailed", <<Warning(i)>>)
                 ELSE /\ pc' = [pc EXCEPT ![i] = "workspaces"]
                      /\ Did("repoAdded", i, <<>>, <<>>,
                             <<Request("project.workspaces.list", i)>>)
                      /\ UNCHANGED <<refs, url, path>>
  /\ UNCHANGED <<cloneState, workspaces, renderedStatus, subscribed,
                 cancelReqs, legacyVars, cancelledTasks>>

\* addRepositoryToStore resumed with the answer of project.workspaces.list.
WorkspacesSettles(i, o, throws) ==
  /\ Flushed
  /\ pc[i] = "workspaces"
  /\ IF o.kind = "reject"
       THEN /\ Finally(i, "followUpFailed", <<Warning(i)>>)
            /\ UNCHANGED entities
     ELSE IF o.success /\ o.hasList
       THEN LET st == AddWorkspaces(Store, o.workspaces, throws) IN
            /\ repos' = st.repos
            /\ workspaces' = st.workspaces
            /\ IF st.threw
                 THEN Finally(i, "followUpFailed", <<Warning(i)>>)
                 ELSE Finally(i, "followUpDone",
                              <<Toast("Repository cloned", "success", i)>>)
     ELSE /\ Finally(i, "followUpDone",
                     <<Toast("Repository cloned", "success", i)>>)
          /\ UNCHANGED entities
  /\ UNCHANGED <<cloneState, renderedStatus, subscribed, cancelReqs,
                 legacyVars, cancelledTasks>>

\* A cancelClone that looks at the task ref only.
CancelCloneAnyStatus ==
  /\ subscribed
  /\ Flushed
  /\ IF currentTaskIdRef = NoTask
       THEN /\ Did("cancelIgnored", NoTask, <<>>, <<>>, <<>>)
            /\ UNCHANGED <<cloneState, signalAborted, cancelledTasks>>
       ELSE /\ signalAborted' = (abortControllerRef # NoTask)
            /\ cloneState' = updateCloneState(cloneState,
                 [ status |-> "cancelled", error |-> MsgCancelledByUser,
                   errorCode |-> "CANCELLED" ])
            /\ cancelledTasks' = cancelledTasks \cup {currentTaskIdRef}
            /\ Did("cancelClone", currentTaskIdRef, <<>>, <<>>,
                   <<Request("git.clone.cancel", currentTaskIdRef)>>)
  /\ UNCHANGED <<entities, currentTaskIdRef, abortControllerRef,
                 renderedStatus, subscribed, slots, cancelReqs, legacyVars>>

\* cancelClone. It ends awaiting git.clone.cancel, whose answer changes
\* nothing (a rejection is logged).
CancelClone ==
  /\ subscribed
  /\ Flushed
  /\ IF currentTaskIdRef = NoTask \/ renderedStatus # "cloning"
       THEN /\ Did("cancelIgnored", NoTask, <<>>, <<>>, <<>>)
            /\ UNCHANGED <<cloneState, signalAborted, cancelledTasks>>
       ELSE /\ signalAborted' = (abortControllerRef # NoTask)
            /\ cloneState' = updateCloneState(cloneState,
                 [ status |-> "cancelled", error |-> MsgCancelledByUser,
                   errorCode |-> "CANCELLED" ])
            /\ cancelledTasks' = cancelledTasks \cup {currentTaskIdRef}
            /\ Did("cancelClone", currentTaskIdRef, <<>>, <<>>,
                   <<Request("git.clone.cancel", currentTaskIdRef)>>)
  /\ UNCHANGED <<entities, currentTaskIdRef, abortControllerRef,
                 renderedStatus, subscribed, slots, cancelReqs, legacyVars>>

\* resetCloneState of the hook's result (resetLocalCloneState)
ResetCloneState ==
  /\ subscribed
  /\ Flushed
  /\ currentTaskIdRef' = NoTask
  /\ abortControllerRef' = NoTask
  /\ signalAborted' = FALSE
  /\ Did("resetCloneState", NoTask, <<>>, <<>>, <<>>)
  /\ UNCHANGED <<cloneState, entities, renderedStatus, subscribed, slots,
                 cancelReqs, legacyVars, cancelledTasks>>

\* ------------------------------------------------------- AddRepoMenu.tsx
\* The progress toast renders its Cancel button while it is visible with a
\* task id and progress < 100.
CancelButtonShown ==
  menu.isCloning /\ menu.currentTaskId # NoTask /\ menu.cloneProgress < 100

\* handleCancelClone, up to the await of git.clone.cancel
HandleCancelClone ==
  /\ Flushed
  /\ CancelButtonShown
  /\ IF menu.currentTaskId = NoTask
       THEN /\ cancelReqs' = cancelReqs
            /\ Did("menuCancelIgnored", NoTask, <<>>, <<>>, <<>>)
       ELSE /\ cancelReqs' = cancelReqs \cup {menu.currentTaskId}
            /\ Did("handleCancelClone", menu.currentTaskId, <<>>, <<>>,
                   <<Request("git.clone.cancel", menu.currentTaskId)>>)
  /\ UNCHANGED <<cloneState, entities, hookVars, legacyVars, cancelledTasks>>

\* handleCancelClone resumed: the request resolved (whatever its success
\* flag), or rejected.
HandleCancelSettles(t, resolved) ==
  /\ Flushed
  /\ t \in cancelReqs
  /\ cancelReqs' = cancelReqs \ {t}
  /\ step' = [op |-> "menuCancelSettled", task |-> t]
  /\ callbacks' = <<>>
  /\ sent' = <<>>
  /\ IF resolved
       THEN /\ toasts' = <<Toast("Clone cancelled", "info", t)>>
            /\ menu' = [isCloning |-> FALSE, cloneProgress |-> 0,
                        currentTaskId |-> NoTask]
       ELSE /\ toasts' = <<>>
            /\ menu' = menu
  /\ UNCHANGED <<cloneState, entities, hookVars, legacyVars, cancelledTasks,
                 openVars, storeCall, apart>>

\* ------------------------------------- CloneInput.tsx, own handleSubmit
\* handleCloneFromURL of AddRepoMenu: setCloneDialogOpen(true)
HandleCloneFromURL ==
  /\ ~lOpen
  /\ lOpen' = TRUE
  /\ Did("handleCloneFromURL", NoTask, <<>>, <<>>, <<>>)
  /\ UNCHANGED <<cloneState, entities, hookVars, cancelReqs, lpc, lpath,
                 lIsCloning, lTaskIdRef, lHandlers, cancelledTasks>>

\* handleKeyDown with Escape: onOpenChange(false) if open && !isCloning, and
\* the effect on [open] then resets isCloning.
Escape ==
  /\ lOpen /\ ~lIsCloning
  /\ lOpen' = FALSE
  /\ lIsCloning' = FALSE
  /\ Did("escape", NoTask, <<>>, <<>>, <<>>)
  /\ UNCHANGED <<cloneState, entities, hookVars, cancelReqs, lpc, lpath,
                 lTaskIdRef, lHandlers, cancelledTasks>>

\* handleSubmit, up to the await of electron.selectCloneLocation(). The
\* form is rendered while open && !isCloning.
HandleSubmit(u, electron) ==
  /\ lOpen /\ ~lIsCloning
  /\ IF TrimmedUrl[u] = <<>> \/ lIsCloning
       THEN /\ Did("submitIgnored", NoTask, <<>>, <<>>, <<>>)
            /\ lpc' = lpc
     ELSE IF ~ValidUrl[u]
       THEN /\ Did("submitInvalid", NoTask,
                   <<Toast("Invalid URL", "error", NoTask)>>, <<>>, <<>>)
            /\ lpc' = lpc
     ELSE IF ~electron
       THEN /\ Did("submitNoPicker", NoTask,
                   <<Toast("Error", "error", NoTask)>>, <<>>, <<>>)
            /\ lpc' = lpc
     ELSE \E i \in Submits :
            /\ lpc[i] = "idle"
            /\ \A j \in Submits : lpc[j] = "idle" => i <= j
            /\ lpc' = [lpc EXCEPT ![i] = "picker"]
            /\ Did("submitPicker", i, <<>>, <<>>, <<>>)
  /\ UNCHANGED <<cloneState, entities, hookVars, cancelReqs, lpath, lOpen,
                 lIsCloning, lTaskIdRef, lHandlers, cancelledTasks>>

\* handleSubmit resumed with the picker's answer, up to the await of
\* git.clone. setIsCloning(true) and onOpenChange(false) commit together;
\* if that closes the dialog, the effect on [open] resets isCloning.
SubmitPickerReturns(i, cloneLocation) ==
  /\ lpc[i] = "picker"
  /\ IF ~TruthyStr(cloneLocation)
       THEN /\ lpc' = [lpc EXCEPT ![i] = "idle"]
            /\ Did("submitPickerCancelled", NoTask, <<>>, <<>>, <<>>)
            /\ UNCHANGED <<lOpen, lIsCloning, lTaskIdRef, lHandlers>>
       ELSE /\ lTaskIdRef' = i
            /\ lHandlers' = lHandlers \cup {i}
            /\ lIsCloning' = ~lOpen
            /\ lOpen' = FALSE
            /\ lpc' = [lpc EXCEPT ![i] = "clone"]
            /\ Did("submitStarted", i, <<>>,
                   <<OnCloneStart(0, i)>>, <<Request("git.clone", i)>>)
  /\ UNCHANGED <<cloneState, entities, hookVars, cancelReqs, lpath,
                 cancelledTasks>>

\* A git.clone.progress event delivered to every handler handleSubmit has
\* subscribed; each compares data.taskId with the taskId of its invocation.
SubmitHandleProgress(taskId, percent) ==
  /\ lHandlers # {}
  /\ IF taskId \in lHandlers
       THEN Did("submitProgress", taskId, <<>>,
                <<OnCloneStart(RoundPercent(percent), taskId)>>, <<>>)
       ELSE Did("submitProgressIgnored", NoTask, <<>>, <<>>, <<>>)
  /\ UNCHANGED <<cloneState, entities, hookVars, cancelReqs, legacyVars,
                 cancelledTasks>>

\* errorMsg.includes('cancelled by user'), errorMsg being
\* cloneResponse.error || '' of a response and the message of a rejection
CancelledByUser ==
  [o \in CloneOutcomes |->
     includes(IF o.kind = "resolve"
                THEN (IF TruthyText(o.error) THEN o.error ELSE <<>>)
                ELSE CaughtMessage(o),
              <<"c","a","n","c","e","l","l","e","d"," ","b","y"," ","u","s","e","r">>)]

\* The finally block of handleSubmit.
SubmitFinally(i, name, ts) ==
  /\ lIsCloning' = FALSE
  /\ lTaskIdRef' = NoTask
  /\ lpc' = [lpc EXCEPT ![i] = "done"]
  /\ lpath' = [lpath EXCEPT ![i] = NULL]
  /\ Did(name, i, ts, <<OnCloneComplete>>, <<>>)

CloneFailedToast(i) == Toast("Clone Failed", "error", i)

\* handleSubmit resumed with the outcome of git.clone (raced with its timer)
SubmitCloneSettles(i, o) ==
  /\ lpc[i] = "clone"
  /\ IF ResponseFailed(o) \/ o.kind = "reject"
       THEN SubmitFinally(i, "submitFailed",
              IF CancelledByUser[o] THEN <<>> ELSE <<CloneFailedToast(i)>>)
       ELSE /\ lpath' = [lpath EXCEPT ![i] = o.data]
            /\ lpc' = [lpc EXCEPT ![i] = "repoInfo"]
            /\ Did("submitSucceeded", i, <<>>, <<>>,
                   <<Request("project.getRepoInfo", i)>>)
            /\ UNCHANGED <<lIsCloning, lTaskIdRef>>
  /\ UNCHANGED <<cloneState, entities, hookVars, cancelReqs, lOpen, lHandlers,
                 cancelledTasks>>

\* handleSubmit resumed with the answer of project.getRepoInfo
SubmitRepoInfoSettles(i, o, throws) ==
  /\ lpc[i] = "repoInfo"
  /\ IF o.kind = "reject"
       THEN /\ SubmitFinally(i, "submitFollowUpFailed", <<CloneFailedToast(i)>>)
            /\ UNCHANGED repos
     ELSE IF RepoInfoFailed(o)
       THEN /\ SubmitFinally(i, "submitFollowUpFailed",
                             <<Toast("Error", "error", i)>>)
            /\ UNCHANGED repos
     ELSE LET st == addRepo(Store, o.repoData[1], throws) IN
          /\ repos' = st.repos
          /\ IF st.threw
               THEN SubmitFinally(i, "submitFollowUpFailed",
                                  <<CloneFailedToast(i)>>)
               ELSE /\ lpc' = [lpc EXCEPT ![i] = "workspaces"]
                    /\ Did("submitRepoAdded", i, <<>>, <<>>,
                           <<Request("project.workspaces.list", i)>>)
                    /\ UNCHANGED <<lpath, lIsCloning, lTaskIdRef>>
  /\ UNCHANGED <<cloneState, workspaces, hookVars, cancelReqs, lOpen,
                 lHandlers, cancelledTasks>>

\* handleSubmit resumed with the answer of project.workspaces.list; its own
\* try/catch swallows a rejection and a throwing addWorkspace.
SubmitWorkspacesSettles(i, o, throws) ==
  /\ lpc[i] = "workspaces"
  /\ IF o.kind = "resolve" /\ o.success /\ o.hasList
       THEN LET st == AddWorkspaces(Store, o.workspaces, throws) IN
            /\ repos' = st.repos
            /\ workspaces' = st.workspaces
       ELSE UNCHANGED entities
  /\ SubmitFinally(i, "submitDone", <<Toast("Repository cloned", "success", i)>>)
  /\ UNCHANGED <<cloneState, hookVars, cancelReqs, lOpen, lHandlers,
                 cancelledTasks>>

\* ------------------------------------------------- callers of the store
\* Paths and workspace ids of the store's callers.
StorePaths == {"/r", "/q"}
StoreIds == {"w1", "w2"}

\* Repository records a caller may pass to addRepo: a path and the
\* workspaceIds the record carries.
RepoRecords ==
  { [path |-> p, workspaceIds |-> l] : p \in StorePaths, l \in {<<>>, <<"w2">>} }

\* Workspace records a caller may pass to addWorkspace.
WorkspaceRecords == { Workspace(w, p) : w \in StoreIds, p \in StorePaths }

\* The record of a store call made on the present entities.
Called(op, p, id, failed) ==
  [op |-> op, path |-> p, id |-> id, failed |-> failed,
   prev |-> IF id \in DOMAIN workspaces THEN workspaces[id] ELSE NULL,
   owned |-> Cardinality({w \in DOMAIN workspaces : workspaces[w] = p})]

\* What a step outside the clone controller leaves of the last step.
Outside(name, ts, rs) ==
  /\ step' = [op |-> name, task |-> NoTask]
  /\ toasts' = ts
  /\ callbacks' = <<>>
  /\ sent' = rs
  /\ UNCHANGED <<cloneState, hookVars, menu, cancelReqs, legacyVars,
                 cancelledTasks, apart>>

\* store.addRepo(repo)
AddRepo(repo) ==
  LET st == addRepo(Store, repo, TRUE) IN
  /\ repos' = st.repos
  /\ storeCall' = Called("addRepo", repo.path, NULL, st.threw)
  /\ Outside("addRepo", <<>>, <<>>)
  /\ UNCHANGED <<workspaces, openVars>>

\* store.addWorkspace(workspace)
AddWorkspace(ws) ==
  LET st == addWorkspace(Store, ws, TRUE) IN
  /\ repos' = st.repos
  /\ workspaces' = st.workspaces
  /\ storeCall' = Called("addWorkspace", ws.repoPath, ws.id, st.threw)
  /\ Outside("addWorkspace", <<>>, <<>>)
  /\ UNCHANGED openVars

\* store.deleteRepo(path)
DeleteRepo(p) ==
  LET st == deleteRepo(Store, p) IN
  /\ repos' = st.repos
  /\ workspaces' = st.workspaces
  /\ storeCall' = Called("deleteRepo", p, NULL, FALSE)
  /\ Outside("deleteRepo", <<>>, <<>>)
  /\ UNCHANGED openVars

\* --------------------------------------- AddRepoMenu.handleOpenProject
\* handleOpenProject up to await electron.selectDirectory(). The handler
\* is the one of the committed render: its repos are the store's of now.
\* The native picker is modal: no second click while it is open.
\* The id toastManager.add gives the loading toast.
LoadingToast == "loading"

\* A closeLoadingToast that forgets the id and leaves the toast.
closeLoadingToastForgets(id, shown) == [id |-> NULL, shown |-> shown]

\* closeLoadingToast: if (loadingToastId) { toastManager.close(...);
\* loadingToastId = undefined }
closeLoadingToast(id, shown) ==
  IF id # NULL THEN [id |-> NULL, shown |-> shown \ {id}]
  ELSE [id |-> id, shown |-> shown]

\* The invocation ends after closeLoadingToast(): finally, isLoading is false.
OpenEnds ==
  LET c == closeLoadingToast(loadingToastId, loadingToasts) IN
  /\ opc' = "idle"
  /\ isLoading' = FALSE
  /\ selectedPath' = NULL
  /\ loadingToastId' = c.id
  /\ loadingToasts' = c.shown

HandleOpenProject(electron) ==
  /\ opc = "idle" \/ isLoading
  /\ IF isLoading
       THEN /\ Outside("openIgnored", <<>>, <<>>)
            /\ UNCHANGED openVars
     ELSE IF ~electron
       THEN /\ Outside("openNoPicker", <<>>, <<>>)
            /\ UNCHANGED openVars
     ELSE /\ opc' = "picker"
          /\ closureRepos' = DOMAIN repos
          /\ loadingToastId' = NULL
          /\ Outside("openPicker", <<>>, <<>>)
          /\ UNCHANGED <<isLoading, selectedPath, loadingToasts>>
  /\ UNCHANGED <<entities, storeCall>>

\* What selectDirectory may resolve with: null when the user cancelled.
SelectedPaths == {NULL} \cup StorePaths

\* handleOpenProject resumed with the selected path.
OpenPickerReturns(p) ==
  /\ opc = "picker"
  /\ IF p = NULL
       THEN /\ opc' = "idle"
            /\ closureRepos' = {}
            /\ isLoading' = FALSE
            /\ Outside("openCancelled", <<>>, <<>>)
            /\ UNCHANGED <<selectedPath, loadingToastId, loadingToasts>>
     ELSE IF p \in closureRepos
       THEN /\ opc' = "idle"
            /\ closureRepos' = {}
            /\ Outside("openRejected",
                       <<Toast("Repository already exists", "error", NoTask)>>, <<>>)
            /\ isLoading' = FALSE
            /\ UNCHANGED <<selectedPath, loadingToastId, loadingToasts>>
     ELSE /\ opc' = "repoInfo"
          /\ isLoading' = TRUE
          /\ selectedPath' = p
          /\ closureRepos' = {}
          /\ loadingToastId' = LoadingToast
          /\ loadingToasts' = loadingToasts \cup {LoadingToast}
          /\ Outside("openLoading",
                     <<Toast("Adding repository", "loading", NoTask)>>,
                     <<Request("project.getRepoInfo", NoTask)>>)
  /\ UNCHANGED <<entities, storeCall>>

\* How request('project.getRepoInfo', {cwd: selectedPath}) may settle.
OpenRepoInfoOutcomes ==
  { [kind |-> "resolve", success |-> TRUE, repoData |-> <<r>>] : r \in RepoRecords }
  \cup
  { [kind |-> k, success |-> FALSE, repoData |-> <<>>] : k \in {"resolve", "reject"} }

FailedToAdd == Toast("Failed to add repository", "error", NoTask)

\* handleOpenProject resumed with the answer of project.getRepoInfo. throws
\* is whether a store action that fails throws.
OpenRepoInfoSettles(o, throws) ==
  /\ opc = "repoInfo"
  /\ IF RepoInfoFailed(o)
       THEN /\ OpenEnds
            /\ Outside("openFailed", <<FailedToAdd>>, <<>>)
            /\ UNCHANGED repos
       ELSE LET st == addRepo(Store, o.repoData[1], throws) IN
            /\ repos' = st.repos
            /\ IF st.threw
                 THEN /\ OpenEnds
                      /\ Outside("openFailed", <<FailedToAdd>>, <<>>)
                 ELSE /\ opc' = "workspaces"
                      /\ Outside("openRepoAdded", <<>>,
                                 <<Request("project.workspaces.list", NoTask)>>)
                      /\ UNCHANGED <<isLoading, selectedPath, loadingToastId,
                                     loadingToasts>>
  /\ UNCHANGED <<workspaces, closureRepos, storeCall>>

\* Lists project.workspaces.list may answer the open-project flow with.
OpenWorkspaceLists ==
  { <<>> }
  \cup { <<ws>> : ws \in WorkspaceRecords }
  \cup { <<Workspace("w1", p), Workspace("w2", p)>> : p \in StorePaths }

OpenWorkspacesOutcomes ==
  { [kind |-> "resolve", success |-> TRUE, hasList |-> TRUE, workspaces |-> l] :
      l \in OpenWorkspaceLists }
  \cup
  { [kind |-> k, success |-> FALSE, hasList |-> FALSE, workspaces |-> <<>>] :
      k \in {"resolve", "reject"} }

\* handleOpenProject resumed with the answer of project.workspaces.list:
\* a failure in here is logged with console.warn, and the repository
\* stays added.
OpenWorkspacesSettles(o, throws) ==
  /\ opc = "workspaces"
  /\ IF o.kind = "resolve" /\ o.success /\ o.hasList
       THEN LET st == AddWorkspaces(Store, o.workspaces, throws) IN
            /\ repos' = st.repos
            /\ workspaces' = st.workspaces
            /\ Outside(IF st.threw THEN "openDoneWarned" ELSE "openDone",
                       <<Toast("Repository added", "success", NoTask)>>, <<>>)
       ELSE /\ UNCHANGED entities
            /\ Outside("openDoneWarned",
                       <<Toast("Repository added", "success", NoTask)>>, <<>>)
  /\ OpenEnds
  /\ UNCHANGED <<closureRepos, storeCall>>

\* ---------------------------------------------------- cloneErrors.ts
\* The clone controller, the entity store and the open-project flow.
cloneSide ==
  <<cloneState, entities, hookVars, menu, cancelReqs, legacyVars, outVars,
    cancelledTasks, openVars, storeCall>>

\* Pieces of error text: every keyword of detectCloneErrorCode, some of
\* them capitalised as git and the client write them, a text with no
\* keyword, and nothing.
Fragments ==
  { <<"C","l","o","n","e"," ","o","p","e","r","a","t","i","o","n"," ","c","a","n","c","e","l","l","e","d"," ","b","y"," ","u","s","e","r">>, <<"H","o","s","t"," ","k","e","y"," ","v","e","r","i","f","i","c","a","t","i","o","n"," ","f","a","i","l","e","d">>,
    <<"P","e","r","m","i","s","s","i","o","n"," ","d","e","n","i","e","d"," ","(","p","u","b","l","i","c","k","e","y",")">>, <<"A","u","t","h","e","n","t","i","c","a","t","i","o","n"," ","f","a","i","l","e","d">>,
    <<"c","o","u","l","d"," ","n","o","t"," ","r","e","a","d"," ","U","s","e","r","n","a","m","e">>, <<"c","o","u","l","d"," ","n","o","t"," ","r","e","a","d"," ","P","a","s","s","w","o","r","d">>,
    <<"C","o","u","l","d"," ","n","o","t"," ","r","e","s","o","l","v","e"," ","h","o","s","t","n","a","m","e">>, <<"n","e","t","w","o","r","k">>, <<"C","o","n","n","e","c","t","i","o","n">>,
    <<"n","o","t"," ","f","o","u","n","d">>, <<"4","0","4">>, <<"t","i","m","e","d"," ","o","u","t">>, <<"t","i","m","e","o","u","t">>,
    <<"g","i","t"," ","i","s"," ","n","o","t"," ","i","n","s","t","a","l","l","e","d">>, <<"g","i","t",":"," ","c","o","m","m","a","n","d"," ","n","o","t"," ","f","o","u","n","d">>,
    <<"I","n","v","a","l","i","d">>, <<"U","R","L">>, <<"a","l","r","e","a","d","y"," ","e","x","i","s","t","s">>, <<"b","o","o","m">>, <<>> }

\* Error texts: two pieces, as in "fatal: ...: ...".
ErrorMessages == { a \o <<":"," ">> \o b : a \in Fragments, b \in Fragments }

\* detectCloneErrorCode(errorMessage), once in a behaviour
Detect(m) ==
  /\ errorText = NoText
  /\ errorText' = m
  /\ detected' = detectCloneErrorCode(m)
  /\ UNCHANGED <<cloneSide, selection, inputVars, connVars, rpcVars, utilVars>>

\* ------------------------------------------------ selection pointers
\* What a step of the store's other users leaves of the last step.
Aside(name) ==
  /\ step' = [op |-> name, task |-> NoTask]
  /\ toasts' = <<>>
  /\ callbacks' = <<>>
  /\ sent' = <<>>
  /\ UNCHANGED <<cloneState, entities, hookVars, menu, cancelReqs, legacyVars,
                 cancelledTasks, openVars, storeCall, detectVars, connVars,
                 rpcVars, utilVars>>

\* Ids a caller may select: null, ids the store may have, and one it
\* never has.
RepoChoices == {NULL} \cup StorePaths \cup {"/gone"}
WorkspaceChoices == {NULL, "w1", "w2"}
SessionChoices == {NULL, "s1", "s2"}

\* A selectRepo that clears the dependent selections with the repository's.
SelectRepoClearing(p) ==
  /\ selectedRepoPath' = p
  /\ selectedWorkspaceId' = IF p = NULL THEN NULL ELSE selectedWorkspaceId
  /\ selectedSessionId' = IF p = NULL THEN NULL ELSE selectedSessionId
  /\ Aside("selectRepo")
  /\ UNCHANGED inputVars

\* selectRepo(path | null)
SelectRepo(p) ==
  /\ selectedRepoPath' = p
  /\ Aside("selectRepo")
  /\ UNCHANGED <<selectedWorkspaceId, selectedSessionId, inputVars>>

\* selectWorkspace(id | null)
SelectWorkspace(w) ==
  /\ selectedWorkspaceId' = w
  /\ Aside("selectWorkspace")
  /\ UNCHANGED <<selectedRepoPath, selectedSessionId, inputVars>>

\* selectSession(id | null)
SelectSession(s) ==
  /\ selectedSessionId' = s
  /\ Aside("selectSession")
  /\ UNCHANGED <<selectedRepoPath, selectedWorkspaceId, inputVars>>

\* TestComponent.handleClearSelections
HandleClearSelections ==
  /\ selectedRepoPath' = NULL
  /\ selectedWorkspaceId' = NULL
  /\ selectedSessionId' = NULL
  /\ Aside("handleClearSelections")
  /\ UNCHANGED inputVars

\* ------------------------------------------- session input (store)
\* defaultSessionInputState, with thinkingEnabled as the thinking-config
\* design adds it. A number or null is <<n>> or <<>>.
defaultSessionInputState ==
  [value |-> "", cursorPosition |-> 0, historyIndex |-> <<>>,
   draftInput |-> "", planMode |-> "normal", thinking |-> NULL,
   pastedTextMap |-> <<>>, pastedImageMap |-> <<>>,
   thinkingEnabled |-> FALSE]

\* getSessionInput(sessionId): inputBySession[sessionId] || default
getSessionInput(ibs, sessionId) ==
  IF sessionId \in DOMAIN ibs THEN ibs[sessionId] ELSE defaultSessionInputState

\* A setSessionInput that forgets the other sessions' entries.
setSessionInputAlone(ibs, sessionId, state) ==
  [x \in {sessionId} |-> state @@ getSessionInput(ibs, sessionId)]

\* setSessionInput(sessionId, state): the fields given replace those of
\* the entry, or of the default when there is none.
setSessionInput(ibs, sessionId, state) ==
  [x \in DOMAIN ibs \cup {sessionId} |->
     IF x = sessionId THEN state @@ getSessionInput(ibs, sessionId) ELSE ibs[x]]

\* resetSessionInput(sessionId)
resetSessionInput(ibs, sessionId) ==
  [x \in DOMAIN ibs \cup {sessionId} |->
     IF x = sessionId THEN defaultSessionInputState ELSE ibs[x]]

\* A history that keeps only the newest entry.
addToWorkspaceHistoryLast(hbw, workspaceId, input) ==
  [x \in DOMAIN hbw \cup {workspaceId} |->
     IF x = workspaceId THEN <<input>> ELSE hbw[x]]

\* getWorkspaceHistory(workspaceId): historyByWorkspace[workspaceId] || []
getWorkspaceHistory(hbw, workspaceId) ==
  IF workspaceId \in DOMAIN hbw THEN hbw[workspaceId] ELSE <<>>

\* addToWorkspaceHistory(workspaceId, input)
addToWorkspaceHistory(hbw, workspaceId, input) ==
  [x \in DOMAIN hbw \cup {workspaceId} |->
     IF x = workspaceId THEN Append(getWorkspaceHistory(hbw, workspaceId), input)
     ELSE hbw[x]]

\* ---------------------------------------------- useInputState (hook)
\* The hook is called with the selected session and workspace; each of
\* its callbacks below is one event, run on the values of the latest
\* render.
SessionIds == {"s1", "s2"}
InputValues == {"", "x"}
ThinkingLevels == {NULL, "low", "medium", "high"}
MaxHistory == 2
HistoryInputs == {"a", "b"}

\* A callback that writes the session's input, or nothing without a
\* session.
InputStep(name, ibs) ==
  /\ inputBySession' = ibs
  /\ Aside(name)
  /\ UNCHANGED <<selection, historyByWorkspace>>

\* setValue(newValue)
SetValue(newValue) ==
  InputStep("setValue",
    IF selectedSessionId # NULL
    THEN setSessionInput(inputBySession, selectedSessionId, [value |-> newValue])
    ELSE inputBySession)

\* reset()
Reset ==
  InputStep("reset",
    IF selectedSessionId # NULL
    THEN resetSessionInput(inputBySession, selectedSessionId)
    ELSE inputBySession)

\* The next level of the thinking cycle.
NextThinking(thinking) ==
  IF thinking = NULL THEN "low"
  ELSE IF thinking = "low" THEN "medium"
  ELSE IF thinking = "medium" THEN "high"
  ELSE NULL

\* A toggleThinking that does not look at thinkingEnabled.
ToggleThinkingUnguarded ==
  InputStep("toggleThinking",
    IF selectedSessionId # NULL
    THEN setSessionInput(inputBySession, selectedSessionId,
           [thinking |->
              NextThinking(getSessionInput(inputBySession, selectedSessionId).thinking)])
    ELSE inputBySession)

\* toggleThinking()
ToggleThinking ==
  LET sessionInput == IF selectedSessionId # NULL
                      THEN getSessionInput(inputBySession, selectedSessionId)
                      ELSE defaultSessionInputState
  IN InputStep("toggleThinking",
       IF selectedSessionId # NULL /\ sessionInput.thinkingEnabled
       THEN setSessionInput(inputBySession, selectedSessionId,
              [thinking |-> NextThinking(sessionInput.thinking)])
       ELSE inputBySession)

\* setThinkingEnabled(enabled)
SetThinkingEnabled(enabled) ==
  InputStep("setThinkingEnabled",
    IF selectedSessionId # NULL
    THEN setSessionInput(inputBySession, selectedSessionId,
           [thinkingEnabled |-> enabled])
    ELSE inputBySession)

\* setThinking(level)
SetThinking(level) ==
  InputStep("setThinking",
    IF selectedSessionId # NULL
    THEN setSessionInput(inputBySession, selectedSessionId, [thinking |-> level])
    ELSE inputBySession)

\* addToHistory(input), while the workspace's history is short
AddToHistory(input) ==
  /\ selectedWorkspaceId # NULL =>
       Len(getWorkspaceHistory(historyByWorkspace, selectedWorkspaceId)) < MaxHistory
  /\ historyByWorkspace' =
       IF selectedWorkspaceId # NULL
       THEN addToWorkspaceHistory(historyByWorkspace, selectedWorkspaceId, input)
       ELSE historyByWorkspace
  /\ Aside("addToHistory")
  /\ UNCHANGED <<selection, inputBySession>>

\* ------------------------------------------- useStoreConnection (hook)
\* What a step of the connection layer leaves of the last step.
Wire(name) ==
  /\ step' = [op |-> name, task |-> NoTask]
  /\ toasts' = <<>>
  /\ callbacks' = <<>>
  /\ sent' = <<>>
  /\ UNCHANGED <<cloneState, entities, hookVars, menu, cancelReqs, legacyVars,
                 cancelledTasks, openVars, storeCall, detectVars, selection,
                 inputVars, utilVars>>

\* The store's connect(): nothing while connecting or connected.
connect(state) ==
  IF state \in {"connecting", "connected"} THEN state ELSE "connecting"

\* An effect without the hasInitialized guard.
EffectRunsUnguarded ==
  /\ effectRuns < MaxEffectRuns
  /\ effectRuns' = effectRuns + 1
  /\ hasInitialized' = TRUE
  /\ connectCalls' = connectCalls + 1
  /\ connectionState' = connect(connectionState)
  /\ initPc' = "connect"
  /\ UNCHANGED initializeCalls
  /\ Wire("effect")
  /\ UNCHANGED rpcVars

\* The effect runs: at mount, again under Strict Mode, and whenever
\* connect or initialize change. init() runs up to its await connect().
EffectRuns ==
  /\ effectRuns < MaxEffectRuns
  /\ effectRuns' = effectRuns + 1
  /\ IF hasInitialized
     THEN UNCHANGED <<hasInitialized, initPc, connectionState, connectCalls,
                      initializeCalls>>
     ELSE /\ hasInitialized' = TRUE
          /\ connectCalls' = connectCalls + 1
          /\ connectionState' = connect(connectionState)
          /\ initPc' = "connect"
          /\ UNCHANGED initializeCalls
  /\ Wire("effect")
  /\ UNCHANGED rpcVars

\* How connect() ends: connected; failed with its promise rejected; or
\* failed with its promise resolved.
ConnectOutcomes == {"connected", "rejected", "error"}

\* connect() settles; init() goes on to initialize() unless it rejected.
ConnectSettles(o) ==
  /\ initPc = "connect"
  /\ connectionState' = IF o = "connected" THEN "connected" ELSE "error"
  /\ initPc' = IF o = "rejected" THEN "rejected" ELSE "initialize"
  /\ initializeCalls' = IF o = "rejected" THEN initializeCalls
                        ELSE initializeCalls + 1
  /\ Wire("connectSettles")
  /\ UNCHANGED <<hasInitialized, effectRuns, connectCalls, rpcVars>>

\* initialize() settles; init() is over.
InitializeSettles ==
  /\ initPc = "initialize"
  /\ initPc' = "done"
  /\ Wire("initializeSettles")
  /\ UNCHANGED <<hasInitialized, effectRuns, connectionState, connectCalls,
                 initializeCalls, rpcVars>>

\* ------------------------------------------------------ RPC multiplexer
\* Ids a response may carry: those of the requests, and one never issued.
ResponseIds == 1..(MaxRequests + 1)

\* Ids of the requests that were sent.
SentIds == { i \in 1..MaxRequests : i < nextRequest /\ settles[i] # <<"connectionError">> }

\* request(method, params): a pending entry under a new id, or an
\* immediate failure while not connected.
RpcRequest ==
  /\ nextRequest <= MaxRequests
  /\ nextRequest' = nextRequest + 1
  /\ IF connectionState = "connected"
     THEN /\ pending' = pending \cup {nextRequest}
          /\ UNCHANGED settles
     ELSE /\ settles' = [settles EXCEPT ![nextRequest] = <<"connectionError">>]
          /\ UNCHANGED pending
  /\ Wire("request")
  /\ UNCHANGED <<deliveries, connVars>>

\* A multiplexer that settles the caller of any request sent, pending or
\* not.
DeliverUnchecked(i) ==
  /\ deliveries[i] < MaxDeliveries
  /\ i \in SentIds \cup {MaxRequests + 1}
  /\ deliveries' = [deliveries EXCEPT ![i] = @ + 1]
  /\ IF i \in SentIds
     THEN /\ settles' = [settles EXCEPT ![i] = Append(@, "response")]
          /\ pending' = pending \ {i}
     ELSE UNCHANGED <<pending, settles>>
  /\ Wire("deliver")
  /\ UNCHANGED <<nextRequest, connVars>>

\* The connection delivers a message with id i: the pending entry of
\* that id is settled and removed; without one the message is dropped.
Deliver(i) ==
  /\ deliveries[i] < MaxDeliveries
  /\ i \in SentIds \cup {MaxRequests + 1}
  /\ deliveries' = [deliveries EXCEPT ![i] = @ + 1]
  /\ IF i \in pending
     THEN /\ settles' = [settles EXCEPT ![i] = Append(@, "response")]
          /\ pending' = pending \ {i}
     ELSE UNCHANGED <<pending, settles>>
  /\ Wire("deliver")
  /\ UNCHANGED <<nextRequest, connVars>>

\* The timeout of the pending entry i: rejected and removed.
TimesOut(i) ==
  /\ i \in pending
  /\ settles' = [settles EXCEPT ![i] = Append(@, "timeout")]
  /\ pending' = pending \ {i}
  /\ Wire("timesOut")
  /\ UNCHANGED <<nextRequest, deliveries, connVars>>

\* ---------------------------------------------------------- promiseUtils
\* What a step of promiseUtils leaves alone.
Util ==
  UNCHANGED <<cloneState, entities, hookVars, menu, cancelReqs, legacyVars,
              outVars, cancelledTasks, openVars, storeCall, detectVars,
              selection, inputVars, connVars, rpcVars>>

Timers == 1..MaxTimers

CLONE_TIMEOUT_MS == 35 * 60 * 1000

\* A number in a template literal: its decimal digits.
DigitChars == <<"0","1","2","3","4","5","6","7","8","9">>
RECURSIVE NumberToString(_)
NumberToString(n) ==
  IF n < 10 THEN <<DigitChars[n + 1]>>
  ELSE NumberToString(n \div 10) \o <<DigitChars[(n % 10) + 1]>>

\* `${operationName} timed out after ${timeoutMs}ms`
TimeoutMessage(operationName, timeoutMs) ==
  operationName \o <<" ","t","i","m","e","d"," ","o","u","t"," ","a","f","t","e","r"," ">> \o NumberToString(timeoutMs) \o <<"m","s">>

\* The names withTimeout is called with: its default, and useClone's.
OperationNames == {<<"O","p","e","r","a","t","i","o","n">>, <<"C","l","o","n","e"," ","o","p","e","r","a","t","i","o","n">>}

\* How the promise given to withTimeout settles.
PromiseOutcomes == {[kind |-> "fulfilled", value |-> <<"o","k">>],
                    [kind |-> "rejected", value |-> MsgWeird]}

\* A finally callback that leaves the timer.
finallyKeep(t) == t

\* The finally callback: if (timeoutId) { clearTimeout(timeoutId);
\* timeoutId = null }. Clearing a timer that fired changes nothing.
finallyClear(t) ==
  IF t.timeoutId # NoTimer
  THEN [t EXCEPT !.timer = IF @ = "armed" THEN "cleared" ELSE @,
                 !.timeoutId = NoTimer]
  ELSE t

\* Promise.race([promise, timeoutPromise]).finally(...): the first input
\* to settle settles the race, and the finally callback runs in the same
\* turn of the event loop, before any timer; a later input is ignored.
race(t, o) ==
  IF t.result = <<>> THEN finallyClear([t EXCEPT !.result = <<o>>]) ELSE t

\* withTimeout(promise, timeoutMs, operationName), promise pending (<<>>)
\* or settled already: setTimeout arms the timer.
WithTimeout(k, p, operationName) ==
  /\ ~timeouts[k].called
  /\ \A j \in Timers : j < k => timeouts[j].called
  /\ LET t == [called |-> TRUE, promise |-> p, operationName |-> operationName,
               timer |-> "armed", timeoutId |-> k, result |-> <<>>]
     IN timeouts' = [timeouts EXCEPT ![k] = IF p = <<>> THEN t ELSE race(t, p[1])]
  /\ UNCHANGED retry
  /\ Util

\* The promise given settles.
PromiseSettles(k, o) ==
  /\ timeouts[k].called
  /\ timeouts[k].promise = <<>>
  /\ timeouts' = [timeouts EXCEPT ![k] = race([@ EXCEPT !.promise = <<o>>], o)]
  /\ UNCHANGED retry
  /\ Util

\* The timer's callback runs: it rejects timeoutPromise.
TimerFires(k) ==
  /\ timeouts[k].timer = "armed"
  /\ timeouts' = [timeouts EXCEPT ![k] =
       race([@ EXCEPT !.timer = "fired"],
            [kind |-> "rejected",
             value |-> TimeoutMessage(@.operationName, CLONE_TIMEOUT_MS)])]
  /\ UNCHANGED retry
  /\ Util

\* What fn() settles with: a value, an Error, or a rejection that is not
\* an Error.
FnOutcomes ==
  {[kind |-> "resolve", isError |-> FALSE, message |-> <<"o","k">>],
   [kind |-> "reject", isError |-> TRUE, message |-> MsgWeird],
   [kind |-> "reject", isError |-> TRUE, message |-> MsgNotFound],
   [kind |-> "reject", isError |-> FALSE, message |-> MsgWeird]}

\* The value an outcome carries.
ValueOf(o) == [isError |-> o.isError, message |-> o.message]

\* undefined: lastError before any assignment.
Undefined == [isError |-> FALSE, message |-> <<>>]

\* error instanceof Error ? error : new Error(String(error))
AsError(e) == IF e.isError THEN e ELSE [isError |-> TRUE, message |-> e.message]

\* An attempt that is the last one attempt early.
isLastAttemptEarly(r) == r.attempt + 1 >= r.maxRetries

\* attempt === maxRetries
isLastAttempt(r) == r.attempt = r.maxRetries

\* retryWithBackoff(fn, maxRetries): the loop is entered and fn called if
\* 0 <= maxRetries; otherwise the throw after the loop throws lastError,
\* never assigned.
RetryWithBackoff(maxRetries) ==
  /\ retry.pc = "none"
  /\ retry' = IF 0 <= maxRetries
              THEN [retry EXCEPT !.pc = "fn", !.maxRetries = maxRetries,
                                 !.calls = 1]
              ELSE [retry EXCEPT !.pc = "thrown", !.maxRetries = maxRetries,
                                 !.outcome = <<Undefined>>]
  /\ UNCHANGED timeouts
  /\ Util

\* Math.random() in hundredths.
Jitters == {0, 50, 99}

\* baseDelayMs * Math.pow(2, attempt) * (1 + Math.random() * 0.1), with
\* the default baseDelayMs of 1000.
Delay(attempt, jitter) == 2 ^ attempt * (1000 + jitter)

\* await fn() settles: return its value, or keep the error and throw it
\* on the last attempt, or wait for the delay.
FnSettles(o, jitter) ==
  /\ retry.pc = "fn"
  /\ retry' =
       IF o.kind = "resolve"
       THEN [retry EXCEPT !.pc = "returned", !.outcome = <<ValueOf(o)>>]
       ELSE LET e == AsError(ValueOf(o))
            IN IF isLastAttempt(retry)
               THEN [retry EXCEPT !.pc = "thrown", !.rejection = <<ValueOf(o)>>,
                                  !.lastError = <<e>>, !.outcome = <<e>>]
               ELSE [retry EXCEPT !.pc = "delay", !.rejection = <<ValueOf(o)>>,
                                  !.lastError = <<e>>,
                                  !.delay = Delay(retry.attempt, jitter)]
  /\ UNCHANGED timeouts
  /\ Util

\* The backoff delay is over: attempt++, and fn is called again while
\* attempt <= maxRetries; past the loop, lastError is thrown.
DelayElapses ==
  /\ retry.pc = "delay"
  /\ retry' = IF retry.attempt + 1 <= retry.maxRetries
              THEN [retry EXCEPT !.pc = "fn", !.attempt = @ + 1,
                                 !.calls = @ + 1]
              ELSE [retry EXCEPT !.pc = "thrown", !.attempt = @ + 1,
                                 !.outcome = retry.lastError]
  /\ UNCHANGED timeouts
  /\ Util

\* ------------------------------------------------------ specifications
\* What every configuration has: the hook mounted in CloneInput, the
\* backend's answers and events.
HookNext ==
  \/ Mount
  \/ Render
  \/ \E t \in Calls \cup {StrayTask}, p \in Percents : HandleProgress(t, p)
  \/ \E u \in TypedUrls, electron \in BOOLEAN : CloneUrl(u, electron)
  \/ \E i \in Calls, l \in Locations : PickerReturns(i, l)
  \/ \E i \in Calls, o \in CloneOutcomes : CloneSettles(i, o)
  \/ \E i \in Calls, o \in RepoInfoOutcomes, throws \in BOOLEAN :
       RepoInfoSettles(i, o, throws)
  \/ \E i \in Calls, o \in WorkspacesOutcomes, throws \in BOOLEAN :
       WorkspacesSettles(i, o, throws)

\* The hook with its whole interface in use: cloneUrl, cancelClone,
\* resetCloneState, and AddRepoMenu's handlers as its callbacks.
Next ==
  \/ HookNext
  \/ CancelClone
  \/ ResetCloneState

Spec == Init /\ [][Next]_vars

\* The hook with its whole interface, on fewer inputs: one progress value,
\* an empty and an accepted locator, the picker available.
LiveNext ==
  \/ Mount
  \/ Render
  \/ \E t \in Calls \cup {StrayTask} : HandleProgress(t, <<454>>)
  \/ \E u \in {UrlEmpty, UrlDotGit} : CloneUrl(u, TRUE)
  \/ \E i \in Calls, l \in Locations : PickerReturns(i, l)
  \/ \E i \in Calls, o \in CloneOutcomes : CloneSettles(i, o)
  \/ \E i \in Calls, o \in RepoInfoOutcomes, throws \in BOOLEAN :
       RepoInfoSettles(i, o, throws)
  \/ \E i \in Calls, o \in WorkspacesOutcomes, throws \in BOOLEAN :
       WorkspacesSettles(i, o, throws)
  \/ CancelClone
  \/ ResetCloneState

\* With what the runtime guarantees: React commits the render of a
\* changed status, and every request settles (git.clone through
\* withTimeout at the latest, the follow-up requests through the client).
SpecLive ==
  /\ Init /\ [][LiveNext]_vars
  /\ WF_vars(Render)
  /\ \A i \in Calls :
       /\ SF_vars(\E o \in CloneOutcomes : CloneSettles(i, o))
       /\ SF_vars(\E o \in RepoInfoOutcomes, throws \in BOOLEAN :
                    RepoInfoSettles(i, o, throws))
       /\ SF_vars(\E o \in WorkspacesOutcomes, throws \in BOOLEAN :
                    WorkspacesSettles(i, o, throws))

\* The application as AddRepoMenu wires it: CloneInput calls cloneUrl of the
\* hook, the progress toast cancels with handleCancelClone.
AppNext ==
  \/ HookNext
  \/ HandleCancelClone
  \/ \E t \in cancelReqs, resolved \in BOOLEAN : HandleCancelSettles(t, resolved)

SpecApp == Init /\ [][AppNext]_vars

\* The application with CloneInput's own handleSubmit in place of the hook.
LegacyNext ==
  \/ HandleCloneFromURL
  \/ Escape
  \/ \E u \in TypedUrls, electron \in BOOLEAN : HandleSubmit(u, electron)
  \/ \E i \in Submits, l \in Locations : SubmitPickerReturns(i, l)
  \/ \E t \in Submits \cup {StrayTask}, p \in Percents : SubmitHandleProgress(t, p)
  \/ \E i \in Submits, o \in CloneOutcomes : SubmitCloneSettles(i, o)
  \/ \E i \in Submits, o \in RepoInfoOutcomes, throws \in BOOLEAN :
       SubmitRepoInfoSettles(i, o, throws)
  \/ \E i \in Submits, o \in WorkspacesOutcomes, throws \in BOOLEAN :
       SubmitWorkspacesSettles(i, o, throws)
  \/ HandleCancelClone
  \/ \E t \in cancelReqs, resolved \in BOOLEAN : HandleCancelSettles(t, resolved)

SpecLegacy == Init /\ [][LegacyNext]_vars

\* The entity store under its callers: any sequence of addRepo,
\* addWorkspace and deleteRepo, and AddRepoMenu's open-project flow.
StoreNext ==
  \/ \E repo \in RepoRecords : AddRepo(repo)
  \/ \E ws \in WorkspaceRecords : AddWorkspace(ws)
  \/ \E p \in StorePaths : DeleteRepo(p)
  \/ \E electron \in BOOLEAN : HandleOpenProject(electron)
  \/ \E p \in SelectedPaths : OpenPickerReturns(p)
  \/ \E o \in OpenRepoInfoOutcomes, throws \in BOOLEAN : OpenRepoInfoSettles(o, throws)
  \/ \E o \in OpenWorkspacesOutcomes, throws \in BOOLEAN :
       OpenWorkspacesSettles(o, throws)

SpecStore == Init /\ [][StoreNext]_vars

\* detectCloneErrorCode applied to error texts.
DetectNext == \E m \in ErrorMessages : Detect(m)

SpecDetect == Init /\ [][DetectNext]_vars

\* The entity store and its selection pointers, as the store test and
\* TestComponent use them.
SelectNext ==
  \/ \E repo \in RepoRecords : AddRepo(repo)
  \/ \E ws \in WorkspaceRecords : AddWorkspace(ws)
  \/ \E p \in StorePaths : DeleteRepo(p)
  \/ \E p \in RepoChoices : SelectRepo(p)
  \/ \E w \in WorkspaceChoices : SelectWorkspace(w)
  \/ \E s \in SessionChoices : SelectSession(s)
  \/ HandleClearSelections

SpecSelect == Init /\ [][SelectNext]_vars


\* The chat input of the selected session.
InputNext ==
  \/ \E s \in SessionChoices : SelectSession(s)
  \/ \E v \in InputValues : SetValue(v)
  \/ Reset
  \/ ToggleThinking
  \/ \E enabled \in BOOLEAN : SetThinkingEnabled(enabled)
  \/ \E level \in ThinkingLevels : SetThinking(level)

SpecInput == Init /\ [][InputNext]_vars

\* The command history of the selected workspace, beside the inputs of
\* its sessions.
HistoryNext ==
  \/ \E w \in WorkspaceChoices : SelectWorkspace(w)
  \/ \E s \in SessionChoices : SelectSession(s)
  \/ \E input \in HistoryInputs : AddToHistory(input)
  \/ \E v \in InputValues : SetValue(v)
  \/ Reset

SpecHistory == Init /\ [][HistoryNext]_vars

\* App: the connection hook, and the main layout once connected.
ConnectionNext ==
  \/ EffectRuns
  \/ \E o \in ConnectOutcomes : ConnectSettles(o)
  \/ InitializeSettles
  \/ connectionState = "connected" /\ \E p \in RepoChoices : SelectRepo(p)
  \/ connectionState = "connected" /\ \E w \in WorkspaceChoices : SelectWorkspace(w)

SpecConnection == Init /\ [][ConnectionNext]_vars

\* Requests over the connection, answered in any order, more than once,
\* or not before their timeout.
RpcNext ==
  \/ EffectRuns
  \/ \E o \in ConnectOutcomes : ConnectSettles(o)
  \/ RpcRequest
  \/ \E i \in ResponseIds : Deliver(i)
  \/ \E i \in 1..MaxRequests : TimesOut(i)

SpecRpc == Init /\ [][RpcNext]_vars

\* promiseUtils.withTimeout: calls, their promises settling, their timers.
TimeoutNext ==
  \/ \E k \in Timers, o \in PromiseOutcomes, n \in OperationNames :
       \/ WithTimeout(k, <<>>, n)
       \/ WithTimeout(k, <<o>>, n)
  \/ \E k \in Timers, o \in PromiseOutcomes : PromiseSettles(k, o)
  \/ \E k \in Timers : TimerFires(k)

SpecTimeout == Init /\ [][TimeoutNext]_vars

\* promiseUtils.retryWithBackoff: one call; every call of fn settles and
\* every delay ends.
RetryNext ==
  \/ \E m \in (0 - 1)..MaxRetries : RetryWithBackoff(m)
  \/ \E o \in FnOutcomes, j \in Jitters : FnSettles(o, j)
  \/ DelayElapses

SpecRetry ==
  /\ Init /\ [][RetryNext]_vars
  /\ WF_vars(\E o \in FnOutcomes, j \in Jitters : FnSettles(o, j))
  /\ WF_vars(DelayElapses)

\* ------------------------------------------------------------ properties
\* C1: once cancelClone has set a task's status to cancelled, a response
\* that arrives for that task's git.clone request (success, failure with
\* any code, rejection or timeout) leaves the status cancelled.
C1_CancelledIsAbsorbing ==
  [][\A i \in Calls, o \in CloneOutcomes :
       (/\ i \in cancelledTasks
        /\ cloneState.taskId = i
        /\ cloneState.status = "cancelled"
        /\ CloneSettles(i, o))
       => cloneState'.status = "cancelled"]_vars

\* A success response has overwritten the status of a cancelled task.
C1_Witness ==
  /\ step = [op |-> "cloneSucceeded", task |-> cloneState.taskId]
  /\ cloneState.taskId \in cancelledTasks
  /\ cloneState.status = "success"

\* C2: an explicit cancel issued while the task is cloning (cancelClone of
\* the hook, handleCancelClone of the progress toast) sends git.clone.cancel
\* with the task's id and marks the local state cancelled in the same step,
\* before the answer to the cancel request: the record's status is
\* cancelled, or at least the menu's clone state is cleared.
C2_CancelMarksCancelledAtOnce ==
  [][(/\ cloneState.status = "cloning"
      /\ \/ CancelClone /\ currentTaskIdRef # NoTask
         \/ HandleCancelClone)
     => /\ sent' = <<Request("git.clone.cancel", cloneState.taskId)>>
        /\ \/ cloneState'.status = "cancelled"
           \/ ~menu'.isCloning]_vars

\* handleCancelClone has sent its request and is waiting for the answer: the
\* record is still cloning and the menu still shows the clone.
C2_Witness ==
  /\ step = [op |-> "handleCancelClone", task |-> cloneState.taskId]
  /\ cloneState.status = "cloning"
  /\ menu.isCloning

\* C3: no step of a cloneUrl invocation whose task has been cancelled
\* changes the entity store (no addRepo, no addWorkspace).
C3_NoStoreMutationAfterCancel ==
  [][\A i \in Calls :
       i \in cancelledTasks /\ pc'[i] # pc[i]
       => repos' = repos /\ workspaces' = workspaces]_vars

\* The repository of a cancelled task has been added to the store.
C3_Witness ==
  /\ step.op = "repoAdded"
  /\ step.task \in cancelledTasks
  /\ DOMAIN repos # {}

\* C4: while a clone task is active, a git.clone.progress event whose taskId
\* differs from the active task id leaves the displayed progress (the
\* menu's clone state) as it was.
C4_OtherTaskEventsIgnored ==
  [][\A t \in Calls \cup Submits \cup {StrayTask}, p \in Percents :
       (\/ /\ HandleProgress(t, p)
           /\ currentTaskIdRef # NoTask /\ t # currentTaskIdRef
        \/ /\ SubmitHandleProgress(t, p)
           /\ lTaskIdRef # NoTask /\ t # lTaskIdRef)
       => menu' = menu]_vars

\* The event of a finished task is displayed while another task is active.
C4_Witness ==
  /\ step.op = "submitProgress"
  /\ lpc[step.task] = "done"
  /\ lTaskIdRef \notin {NoTask, step.task}
  /\ menu = [isCloning |-> TRUE, cloneProgress |-> 99, currentTaskId |-> step.task]

\* C5: the displayed clone progress is always a whole number in 0..100.
C5_DisplayedProgressInRange == menu.cloneProgress \in 0..100

\* A percent of 150.4 is displayed as 150.
C5_Witness ==
  /\ step.op = "progress"
  /\ menu.cloneProgress = 150

\* C6: at most one git.clone request issued by cloneUrl is outstanding at
\* any moment.
C6_AtMostOneCloneOutstanding ==
  Cardinality({i \in Calls : pc[i] = "clone"}) <= 1

\* C7: cloneUrl with a locator that is empty after trimming, or that neither
\* starts with http://, https:// or git@ nor ends in .git, sends no request,
\* does not open the directory picker and leaves the clone task record
\* unchanged.
C7_BadLocatorStopsLocally ==
  [][\A u \in TypedUrls, electron \in BOOLEAN :
       (/\ CloneUrl(u, electron)
        /\ LET t == trim(u) IN
             \/ t = <<>>
             \/ /\ ~startsWith(t, <<"h","t","t","p",":","/","/">>)
                /\ ~startsWith(t, <<"h","t","t","p","s",":","/","/">>)
                /\ ~startsWith(t, <<"g","i","t","@">>)
                /\ ~endsWith(t, <<".","g","i","t">>))
       => /\ sent' = <<>>
          /\ pc' = pc
          /\ cloneState' = cloneState]_vars

\* A rejected locator: the Invalid URL toast, and nothing sent.
C7_Witness ==
  /\ step.op = "cloneUrlInvalid"
  /\ toasts = <<Toast("Invalid URL", "error", NoTask)>>
  /\ sent = <<>>
  /\ cloneState = InitialCloneState

\* C8: when the directory picker returns null, cloneUrl ends silently: no
\* task id is recorded, the clone task record is unchanged, nothing is sent,
\* no toast is added and neither callback is invoked.
C8_PickerCancelIsSilent ==
  [][\A i \in Calls :
       PickerReturns(i, NULL)
       => /\ cloneState' = cloneState
          /\ currentTaskIdRef' = currentTaskIdRef
          /\ abortControllerRef' = abortControllerRef
          /\ sent' = <<>>
          /\ toasts' = <<>>
          /\ callbacks' = <<>>
          /\ menu' = menu
          /\ pc'[i] = "idle"]_vars

\* The picker was cancelled while the record was idle.
C8_Witness ==
  /\ step.op = "pickerCancelled"
  /\ cloneState.status = "idle"
  /\ currentTaskIdRef = NoTask
  /\ toasts = <<>> /\ callbacks = <<>> /\ sent = <<>>

\* C9: the progress handler is subscribed and the task's id is the active
\* task id when its git.clone request is sent, and every progress event for
\* a task whose git.clone request is outstanding is passed on to
\* onCloneStart.
C9_NoProgressEventLost ==
  [][/\ \A i \in Calls :
          (\E k \in 1..Len(sent') : sent'[k] = Request("git.clone", i))
          /\ pc'[i] = "clone" /\ pc[i] = "picker"
          => subscribed /\ currentTaskIdRef' = i
     /\ \A i \in Calls, p \in Percents :
          pc[i] = "clone" /\ HandleProgress(i, p)
          => callbacks' = <<OnCloneStart(RoundPercent(p), i)>>
     /\ \A i \in Submits, p \in Percents :
          lpc[i] = "clone" /\ SubmitHandleProgress(i, p)
          => callbacks' = <<OnCloneStart(RoundPercent(p), i)>>]_vars

\* C10: a git.clone response with success and data makes the record success
\* with progress 100 in the step that starts the follow-up, and a failing
\* follow-up (getRepoInfo failing or rejecting, workspaces.list rejecting, a
\* store action throwing) leaves the record as it is and adds the Warning
\* toast and no other.
C10_FollowUpFailureKeepsSuccess ==
  [][/\ \A i \in Calls, o \in CloneResolutions :
          /\ pc[i] = "clone" /\ pc'[i] # "clone"
          /\ CloneSettles(i, o) /\ o.success /\ o.data \in ClonePaths
          => /\ cloneState'.status = "success"
             /\ cloneState'.progress = 100
             /\ sent' = <<Request("project.getRepoInfo", i)>>
     /\ \A i \in Calls, o \in RepoInfoOutcomes, throws \in BOOLEAN :
          /\ pc[i] = "repoInfo" /\ pc'[i] # "repoInfo"
          /\ RepoInfoSettles(i, o, throws)
          /\ \/ o.kind = "reject" \/ ~o.success \/ o.repoData = <<>>
             \/ throws /\ o.repoData[1].path \in DOMAIN repos
          => cloneState' = cloneState /\ toasts' = <<Warning(i)>>
     /\ \A i \in Calls, o \in WorkspacesOutcomes, throws \in BOOLEAN :
          /\ pc[i] = "workspaces" /\ pc'[i] # "workspaces"
          /\ WorkspacesSettles(i, o, throws)
          /\ \/ o.kind = "reject"
             \/ /\ throws /\ o.success
                /\ \E k \in 1..Len(o.workspaces) :
                     o.workspaces[k].repoPath \notin DOMAIN repos
          => cloneState' = cloneState /\ toasts' = <<Warning(i)>>]_vars

\* The follow-up of a successful clone failed, and the record says success.
C10_Witness ==
  /\ step.op = "followUpFailed"
  /\ cloneState.taskId = step.task
  /\ cloneState.status = "success"
  /\ cloneState.progress = 100
  /\ toasts = <<Warning(step.task)>>

C12_NoFailureToastForCancelled ==
  [][/\ \A k \in 1..Len(toasts') :
          toasts'[k].title = "Clone Failed" => toasts'[k].task \notin cancelledTasks
     /\ \A i \in Calls, o \in CloneOutcomes :
          (/\ pc[i] = "clone" /\ pc'[i] # "clone"
           /\ CloneSettles(i, o)
           /\ \/ o.kind = "resolve" /\ o.errorCode = "CANCELLED"
              \/ DetectedCode[o] = "CANCELLED")
          => \A k \in 1..Len(toasts') : toasts'[k].title # "Clone Failed"]_vars

\* A 'Clone Failed' toast for a task cancelled with cancelClone.
C12_Witness ==
  /\ step.op \in {"cloneFailed", "cloneRejected"}
  /\ step.task \in cancelledTasks
  /\ \E k \in 1..Len(toasts) :
       toasts[k].title = "Clone Failed" /\ toasts[k].task = step.task

\* C13: the 'Clone Failed' toast of a failure that is not a cancellation
\* carries, as its description, the CloneErrorMessages entry of the code
\* detectCloneErrorCode gives the error.
C13_FailureToastCarriesCodeMessage ==
  [][\A i \in Calls, o \in CloneOutcomes :
       (/\ pc[i] = "clone" /\ pc'[i] # "clone"
        /\ CloneSettles(i, o)
        /\ toasts' # <<>>
        /\ toasts'[1].title = "Clone Failed")
       => toasts'[1].description = CloneErrorMessages[DetectedCode[o]]]_vars

\* An authentication failure shown with git's own words.
C13_Witness ==
  /\ step.op = "cloneRejected"
  /\ cloneState.errorCode = "AUTH_REQUIRED"
  /\ toasts = << [ title |-> "Clone Failed", type |-> "error",
                   task |-> step.task, description |-> MsgAuthFailed ] >>

\* C14: whenever the status is failed, cancelled or success, cloneUrl with
\* a valid locator is accepted (it can be invoked, and goes on to the
\* directory picker), and with a chosen destination it makes the record a
\* new task's, with status cloning and progress 0, and sends git.clone.
C14_NewAttemptAfterTerminalState ==
  [][cloneState.status \in {"failed", "cancelled", "success"}
     => /\ (subscribed /\ Flushed /\ \E i \in Calls : pc[i] = "idle")
           => ENABLED CloneUrl(UrlHttps, TRUE)
        /\ \A u \in {UrlHttps, UrlDotGit} :
             CloneUrl(u, TRUE)
             => /\ toasts' = <<>>
                /\ \E i \in Calls :
                     /\ pc[i] = "idle" /\ pc'[i] = "picker"
                     /\ url'[i] = trim(u)
        /\ \A i \in Calls, l \in Locations \ {NULL, ""} :
             pc[i] = "picker" /\ PickerReturns(i, l)
             => /\ cloneState'.taskId = i
                /\ cloneState'.status = "cloning"
                /\ cloneState'.progress = 0
                /\ cloneState'.error = NoText
                /\ cloneState'.errorCode = NULL
                /\ cloneState'.destination = l
                /\ sent' = <<Request("git.clone", i)>>]_vars

\* cloneUrl has been accepted while the record of the previous task says
\* failed.
C14_Witness ==
  /\ step = [op |-> "selectCloneLocation", task |-> 2]
  /\ pc[1] = "done" /\ pc[2] = "picker"
  /\ cloneState.taskId = 1
  /\ cloneState.status = "failed"

\* C15: the step in which the timeout of git.clone fires sends no
\* git.clone.cancel request, and a git.clone.cancel request is sent only by
\* an explicit cancel action (cancelClone, handleCancelClone).
C15_CancelOnlyByExplicitCancel ==
  [][/\ \A i \in Calls, o \in CloneRejections :
          (/\ pc[i] = "clone" /\ pc'[i] # "clone"
           /\ o.error = MsgTimedOut
           /\ CloneSettles(i, o))
          => \A k \in 1..Len(sent') : sent'[k].method # "git.clone.cancel"
     /\ (\E k \in 1..Len(sent') : sent'[k].method = "git.clone.cancel")
          => CancelClone \/ HandleCancelClone]_vars

\* The effect's cleanup has sent git.clone.cancel for a task that succeeded.
C15_Witness ==
  /\ step = [op |-> "cleanup", task |-> cloneState.taskId]
  /\ cloneState.status = "success"
  /\ cancelledTasks = {}
  /\ sent = <<Request("git.clone.cancel", cloneState.taskId)>>

\* C16: a deleteRepo(p) leaves no repository with path p and no workspace
\* whose repoPath is p, and no step leaves a workspace whose repository is
\* gone.
C16_DeleteRepoCascades ==
  [][/\ \A p \in StorePaths :
          DeleteRepo(p) =>
            /\ p \notin DOMAIN repos'
            /\ \A w \in DOMAIN workspaces' : workspaces'[w] # p
     /\ \A w \in DOMAIN workspaces' : workspaces'[w] \in DOMAIN repos']_vars

\* deleteRepo("/r") has removed a repository that had two workspaces, and
\* the other repository is still there.
C16_Witness ==
  /\ step.op = "deleteRepo"
  /\ storeCall.op = "deleteRepo" /\ storeCall.path = "/r" /\ storeCall.owned = 2
  /\ DOMAIN repos = {"/q"}
  /\ workspaces = <<>>

\* C17: an addWorkspace that succeeds leaves, in its one step, the workspace
\* in the store and its id exactly once in the workspaceIds of the
\* repository it names, also when the id was added before.
C17_AddedWorkspaceListedOnce ==
  [][\A ws \in WorkspaceRecords :
       (AddWorkspace(ws) /\ ~storeCall'.failed)
       => /\ ws.id \in DOMAIN workspaces'
          /\ workspaces'[ws.id] = ws.repoPath
          /\ ws.repoPath \in DOMAIN repos'
          /\ Cardinality({k \in 1..Len(repos'[ws.repoPath]) :
                            repos'[ws.repoPath][k] = ws.id}) = 1]_vars

\* addWorkspace of w1 under "/r" has succeeded a second time.
C17_Witness ==
  /\ step.op = "addWorkspace"
  /\ storeCall = [op |-> "addWorkspace", path |-> "/r", id |-> "w1",
                  failed |-> FALSE, prev |-> "/r", owned |-> 1]
  /\ DOMAIN repos = {"/r"}
  /\ repos["/r"] = <<"w1">>
  /\ DOMAIN workspaces = {"w1"}
  /\ workspaces["w1"] = "/r"

\* C18: addRepo with a path the store has leaves repos and workspaces as
\* they are; addRepo with a new path inserts the given record and changes
\* nothing else; handleOpenProject sends no request for a selected path
\* that is in repos.
C18_AddRepoNeverOverwrites ==
  [][/\ \A repo \in RepoRecords :
          AddRepo(repo) =>
            IF repo.path \in DOMAIN repos
              THEN repos' = repos /\ workspaces' = workspaces
              ELSE /\ DOMAIN repos' = DOMAIN repos \cup {repo.path}
                   /\ repos'[repo.path] = repo.workspaceIds
                   /\ \A q \in DOMAIN repos : repos'[q] = repos[q]
                   /\ workspaces' = workspaces
     /\ \A p \in StorePaths :
          (opc = "picker" /\ p \in DOMAIN repos /\ OpenPickerReturns(p))
          => sent' = <<>> /\ opc' = "idle"]_vars

\* handleOpenProject has sent project.getRepoInfo for a path that was in
\* repos when it was selected.
C18_Witness ==
  /\ step.op = "openLoading"
  /\ selectedPath \in DOMAIN repos
  /\ sent = <<Request("project.getRepoInfo", NoTask)>>

\* C19: an addWorkspace whose repoPath names no repository of the store
\* fails, and leaves repos and workspaces as they are; so does a
\* project.workspaces.list answer of handleOpenProject with such a workspace.
C19_OrphanWorkspaceRejected ==
  [][/\ \A ws \in WorkspaceRecords :
          (ws.repoPath \notin DOMAIN repos /\ AddWorkspace(ws))
          => storeCall'.failed /\ repos' = repos /\ workspaces' = workspaces
     /\ \A o \in OpenWorkspacesOutcomes, throws \in BOOLEAN :
          (/\ opc = "workspaces"
           /\ Len(o.workspaces) = 1
           /\ o.workspaces[1].repoPath \notin DOMAIN repos
           /\ OpenWorkspacesSettles(o, throws))
          => repos' = repos /\ workspaces' = workspaces]_vars

\* addWorkspace of w2 under "/q" has failed on a store that has "/r" only,
\* with its workspace w1.
C19_Witness ==
  /\ step.op = "addWorkspace"
  /\ storeCall = [op |-> "addWorkspace", path |-> "/q", id |-> "w2",
                  failed |-> TRUE, prev |-> NULL, owned |-> 0]
  /\ DOMAIN repos = {"/r"}
  /\ repos["/r"] = <<"w1">>
  /\ DOMAIN workspaces = {"w1"}

C29_CancelOutsideCloningIsNoOp ==
  [][(cloneState.status # "cloning" /\ CancelClone)
     => sent' = <<>> /\ toasts' = <<>> /\ cloneState' = cloneState]_vars

\* cancelClone has returned at once although the hook holds a task id: the
\* clone succeeded and its follow-up requests are still awaited.
C29_Witness ==
  /\ step.op = "cancelIgnored"
  /\ cloneState.status = "success"
  /\ currentTaskIdRef # NoTask
  /\ currentTaskIdRef = cloneState.taskId

\* C30: a status of success, failed or cancelled changes only to cloning,
\* with the task id of a new clone.
C30_TerminalStatusStays ==
  [][(/\ cloneState.status \in {"success", "failed", "cancelled"}
      /\ cloneState'.status # cloneState.status)
     => /\ cloneState'.status = "cloning"
        /\ cloneState'.taskId # cloneState.taskId]_vars

\* The record of a task that cancelClone marked cancelled says success.
C30_Witness ==
  /\ step = [op |-> "cloneSucceeded", task |-> cloneState.taskId]
  /\ cloneState.taskId \in cancelledTasks
  /\ cloneState.status = "success"

\* The rules of the classification in their order: a code and its keywords.
ClassificationRules ==
  << [code |-> "CANCELLED", keywords |-> {<<"c","a","n","c","e","l","l","e","d"," ","b","y"," ","u","s","e","r">>}],
     [code |-> "SSH_AUTH_FAILED",
      keywords |-> {<<"h","o","s","t"," ","k","e","y"," ","v","e","r","i","f","i","c","a","t","i","o","n"," ","f","a","i","l","e","d">>,
                    <<"p","e","r","m","i","s","s","i","o","n"," ","d","e","n","i","e","d"," ","(","p","u","b","l","i","c","k","e","y",")">>}],
     [code |-> "AUTH_REQUIRED",
      keywords |-> {<<"a","u","t","h","e","n","t","i","c","a","t","i","o","n"," ","f","a","i","l","e","d">>, <<"c","o","u","l","d"," ","n","o","t"," ","r","e","a","d"," ","u","s","e","r","n","a","m","e">>,
                    <<"c","o","u","l","d"," ","n","o","t"," ","r","e","a","d"," ","p","a","s","s","w","o","r","d">>}],
     [code |-> "NETWORK_ERROR",
      keywords |-> {<<"c","o","u","l","d"," ","n","o","t"," ","r","e","s","o","l","v","e"," ","h","o","s","t","n","a","m","e">>, <<"n","e","t","w","o","r","k">>,
                    <<"c","o","n","n","e","c","t","i","o","n">>}],
     [code |-> "REPO_NOT_FOUND", keywords |-> {<<"n","o","t"," ","f","o","u","n","d">>, <<"4","0","4">>}],
     [code |-> "TIMEOUT", keywords |-> {<<"t","i","m","e","d"," ","o","u","t">>, <<"t","i","m","e","o","u","t">>}],
     [code |-> "GIT_NOT_INSTALLED",
      keywords |-> {<<"g","i","t"," ","i","s"," ","n","o","t"," ","i","n","s","t","a","l","l","e","d">>, <<"g","i","t",":"," ","c","o","m","m","a","n","d"," ","n","o","t"," ","f","o","u","n","d">>}],
     [code |-> "INVALID_URL", keywords |-> {<<"i","n","v","a","l","i","d">>, <<"u","r","l">>}],
     [code |-> "DIR_EXISTS", keywords |-> {<<"a","l","r","e","a","d","y"," ","e","x","i","s","t","s">>}] >>

\* A rule matches a text when one of its keywords occurs in it.
SomeKeywordOccurs(rule, msg) == \E kw \in rule.keywords : includes(msg, kw)

\* As above, but the invalid-url rule needs all of its keywords.
RuleMatches(rule, msg) ==
  IF rule.code = "INVALID_URL"
    THEN \A kw \in rule.keywords : includes(msg, kw)
    ELSE SomeKeywordOccurs(rule, msg)

\* The code of the earliest rule that matches, UNKNOWN when none does.
FirstRule(Matches(_, _), msg) ==
  LET hits == {k \in 1..Len(ClassificationRules) :
                 Matches(ClassificationRules[k], msg)} IN
  IF hits = {} THEN "UNKNOWN"
  ELSE ClassificationRules[CHOOSE k \in hits : \A j \in hits : k <= j].code

\* C26, as stated: the code found for an error text is the code of the
\* earliest rule one of whose keywords occurs in the lowercased text, and
\* UNKNOWN when there is none.
C26_EarliestKeywordRuleWins ==
  errorText # NoText
  => detected = FirstRule(SomeKeywordOccurs, toLowerCase(errorText))

\* C26, amended: the code found for an error text is the code of the
\* earliest rule that matches the lowercased text, where the invalid-url
\* rule matches when both "invalid" and "url" occur and every other rule
\* when one of its keywords occurs; UNKNOWN when no rule matches.
C26_EarliestMatchingRuleWins ==
  errorText # NoText
  => detected = FirstRule(RuleMatches, toLowerCase(errorText))

\* A text with "invalid" and without "url" that matches a later rule.
C26_Witness ==
  /\ errorText = <<"I","n","v","a","l","i","d",":"," ","a","l","r","e","a","d","y"," ","e","x","i","s","t","s">>
  /\ detected = "DIR_EXISTS"

\* C21: selectRepo, selectWorkspace and selectSession set their own
\* pointer to the id given, whether or not the store has it, and leave
\* repos, workspaces and the other two pointers as they are; selecting
\* null clears nothing but the pointer itself.
C21_SelectionChangesOwnPointerOnly ==
  [][/\ \A p \in RepoChoices :
          SelectRepo(p) =>
            /\ selectedRepoPath' = p
            /\ UNCHANGED <<repos, workspaces, selectedWorkspaceId, selectedSessionId>>
     /\ \A w \in WorkspaceChoices :
          SelectWorkspace(w) =>
            /\ selectedWorkspaceId' = w
            /\ UNCHANGED <<repos, workspaces, selectedRepoPath, selectedSessionId>>
     /\ \A s \in SessionChoices :
          SelectSession(s) =>
            /\ selectedSessionId' = s
            /\ UNCHANGED <<repos, workspaces, selectedRepoPath, selectedWorkspaceId>>]_vars

\* selectRepo(null) has cleared the repository selection of a store that
\* has a repository with a workspace; the workspace and the session stay
\* selected.
C21_Witness ==
  /\ step.op = "selectRepo"
  /\ selectedRepoPath = NULL
  /\ selectedWorkspaceId = "w1"
  /\ selectedSessionId = "s1"
  /\ DOMAIN repos = {"/r"}
  /\ DOMAIN workspaces = {"w1"}

\* What the store holds for a session: its entry, or nothing.
StoredInput(ibs, s) == IF s \in DOMAIN ibs THEN <<ibs[s]>> ELSE <<>>

\* C22: session input state is isolated per session: a session with no
\* stored entry reads as the default object, every session reads as an
\* object with all the fields, and a step of the hook of session A
\* (setSessionInput, resetSessionInput) leaves what the store holds for
\* every other session as it was.
C22_SessionInputIsolated ==
  [][/\ \A s \in SessionIds :
          /\ s \notin DOMAIN inputBySession' =>
               getSessionInput(inputBySession', s) = defaultSessionInputState
          /\ DOMAIN getSessionInput(inputBySession', s) =
               DOMAIN defaultSessionInputState
     /\ \A b \in SessionIds \ {selectedSessionId} :
          StoredInput(inputBySession', b) = StoredInput(inputBySession, b)]_vars

\* setValue has written the input of s2 while s1 has an entry of its own
\* with another value.
C22_Witness ==
  /\ step.op = "setValue"
  /\ selectedSessionId = "s2"
  /\ DOMAIN inputBySession = {"s1", "s2"}
  /\ inputBySession["s1"].value = "x"
  /\ inputBySession["s1"].thinking = "medium"
  /\ inputBySession["s2"].value = ""
  /\ inputBySession["s2"].thinking = NULL

C24_ToggleThinkingCycles ==
  [][ToggleThinking =>
       LET before == getSessionInput(inputBySession, selectedSessionId)
       IN IF selectedSessionId = NULL \/ ~before.thinkingEnabled
          THEN inputBySession' = inputBySession
          ELSE /\ DOMAIN inputBySession' = DOMAIN inputBySession
               /\ \A b \in DOMAIN inputBySession \ {selectedSessionId} :
                    inputBySession'[b] = inputBySession[b]
               /\ inputBySession'[selectedSessionId] =
                    [before EXCEPT !.thinking =
                       CASE @ = NULL -> "low"
                         [] @ = "low" -> "medium"
                         [] @ = "medium" -> "high"
                         [] @ = "high" -> NULL]]_vars

\* toggleThinking has taken an enabled session from high back to null,
\* its value kept.
C24_Witness ==
  /\ step.op = "toggleThinking"
  /\ selectedSessionId = "s1"
  /\ "s1" \in DOMAIN inputBySession
  /\ inputBySession["s1"].thinkingEnabled
  /\ inputBySession["s1"].thinking = NULL
  /\ inputBySession["s1"].value = "x"

\* C28: the command history is kept by workspace: addToHistory(x) for
\* workspace w puts x after the entries w had, which stay in their order,
\* and leaves the other workspaces' histories and every session's input
\* as they were; no other step, reset and the selection of another
\* session included, changes a history; a workspace with no entry reads
\* as the empty sequence.
C28_HistoryAppendsPerWorkspace ==
  [][/\ \A x \in HistoryInputs :
          AddToHistory(x) /\ selectedWorkspaceId # NULL =>
            LET old == getWorkspaceHistory(historyByWorkspace, selectedWorkspaceId)
                new == getWorkspaceHistory(historyByWorkspace', selectedWorkspaceId)
            IN /\ Len(new) = Len(old) + 1
               /\ new[Len(new)] = x
               /\ SubSeq(new, 1, Len(old)) = old
               /\ \A w \in DOMAIN historyByWorkspace' \ {selectedWorkspaceId} :
                    /\ w \in DOMAIN historyByWorkspace
                    /\ historyByWorkspace'[w] = historyByWorkspace[w]
               /\ inputBySession' = inputBySession
     /\ step'.op # "addToHistory" => historyByWorkspace' = historyByWorkspace
     /\ \A w \in {"w1", "w2"} \ DOMAIN historyByWorkspace' :
          getWorkspaceHistory(historyByWorkspace', w) = <<>>]_vars

\* addToHistory has added a second entry to w1 while w2 has a history of
\* its own and a session has input; w2 has none in another behaviour.
C28_Witness ==
  /\ step.op = "addToHistory"
  /\ selectedWorkspaceId = "w1"
  /\ DOMAIN historyByWorkspace = {"w1", "w2"}
  /\ historyByWorkspace["w1"] = <<"a", "b">>
  /\ historyByWorkspace["w2"] = <<"b">>
  /\ "s1" \in DOMAIN inputBySession
  /\ inputBySession["s1"].value = "x"

\* C25: with any number of requests outstanding and their responses
\* arriving in any order, a response settles the pending entry of the id
\* it carries and no other, and takes it out of the pending entries; a
\* response whose id has no pending entry (a duplicate, one after the
\* timeout, an id never issued) settles nothing and leaves the pending
\* entries as they are; no caller is settled twice.
C25_ResponseSettlesItsOwnEntryOnce ==
  [][/\ \A i \in ResponseIds :
          Deliver(i) =>
            IF i \in pending
            THEN /\ pending' = pending \ {i}
                 /\ settles' = [settles EXCEPT ![i] = <<"response">>]
            ELSE UNCHANGED <<pending, settles>>
     /\ \A i \in 1..MaxRequests :
          /\ Len(settles'[i]) <= 1
          /\ i \in pending' => settles'[i] = <<>>]_vars

\* Three requests were outstanding together; the third was answered
\* twice, the first once, the second timed out and was answered
\* afterwards, and a response with an id never issued has arrived.
C25_Witness ==
  /\ step.op = "deliver"
  /\ pending = {}
  /\ settles = <<<<"response">>, <<"timeout">>, <<"response">>>>
  /\ deliveries = <<1, 1, 2, 1>>

\* C27: however often the effect of useStoreConnection runs, connect is
\* called once, by the first run, and initialize at most once, by the
\* step in which that connect call settles.
C27_ConnectsExactlyOnce ==
  [][/\ connectCalls' = (IF effectRuns' > 0 THEN 1 ELSE 0)
     /\ initializeCalls' <= 1
     /\ initializeCalls' # initializeCalls =>
          /\ initPc = "connect"
          /\ connectCalls = 1
          /\ connectionState = "connecting"
          /\ connectionState' # "connecting"]_vars

\* The effect has run three times; connect and initialize were called
\* once each and both have settled.
C27_Witness ==
  /\ effectRuns = MaxEffectRuns
  /\ hasInitialized
  /\ connectCalls = 1
  /\ initializeCalls = 1
  /\ initPc = "done"
  /\ connectionState = "connected"

\* C31: the outcome of the git.clone request of a task that was cancelled,
\* handled when the record belongs to a newer task, leaves the record's
\* status, progress, error and errorCode as they were.
C31_StaleOutcomeLeavesNewerTask ==
  [][\A i \in Calls, o \in CloneOutcomes :
        /\ pc[i] = "clone" /\ pc'[i] # "clone"
        /\ i \in cancelledTasks
        /\ cloneState.taskId # i
        /\ CloneSettles(i, o)
        => /\ cloneState'.status = cloneState.status
           /\ cloneState'.progress = cloneState.progress
           /\ cloneState'.error = cloneState.error
           /\ cloneState'.errorCode = cloneState.errorCode]_vars

\* Task 1 was cancelled, task 2 was started and is still awaiting its
\* git.clone, and the outcome of task 1 has made the record of task 2
\* failed.
C31_Witness ==
  /\ 1 \in cancelledTasks
  /\ pc[2] = "clone"
  /\ 2 \notin cancelledTasks
  /\ cloneState.taskId = 2
  /\ step.task = 1
  /\ step.op \in {"cloneFailed", "cloneRejected"}
  /\ cloneState.status = "failed"

\* C32: whenever the record's status is cloning, currentTaskIdRef holds
\* the record's task id.
C32_CloningTaskIsActive ==
  cloneState.status = "cloning" => currentTaskIdRef = cloneState.taskId

\* Task 2 is cloning and awaits its git.clone, and the finally block of
\* task 1 has cleared currentTaskIdRef.
C32_Witness ==
  /\ cloneState.status = "cloning"
  /\ cloneState.taskId = 2
  /\ pc[2] = "clone"
  /\ currentTaskIdRef = NoTask
  /\ step.task = 1
  /\ pc[1] = "done"

\* C33: while the hook stays mounted, the render that follows a change of
\* the record's status sends no request: the cleanup of the status effect
\* sends no git.clone.cancel because the task's status changed.
C33_NoCancelFromStatusChange ==
  [][Render => sent' = <<>>]_vars

\* cancelClone has sent git.clone.cancel for the task, and the cleanup
\* that ran on the change to cancelled has sent it once more.
C33_Witness ==
  /\ step.op = "cleanup"
  /\ step.task = cloneState.taskId
  /\ step.task \in cancelledTasks
  /\ cloneState.status = "cancelled"
  /\ pc[step.task] = "clone"
  /\ sent = <<Request("git.clone.cancel", step.task)>>

\* C34: a task whose record is cloning sooner or later is no longer
\* cloning; an invocation that has called onCloneStart(0, taskId) sooner
\* or later ends; the step in which it ends, and no other step, calls
\* onCloneComplete, once, and an invocation that has ended stays ended.
C34_CloneEndsAndCompletesOnce ==
  /\ \A i \in Calls :
       /\ (cloneState.taskId = i /\ cloneState.status = "cloning")
            ~> ~(cloneState.taskId = i /\ cloneState.status = "cloning")
       /\ (pc[i] = "clone") ~> (pc[i] = "done")
  /\ [][/\ \A i \in Calls :
             /\ pc[i] \in {"clone", "repoInfo", "workspaces"} /\ pc'[i] = "done"
                  => callbacks' = <<OnCloneComplete>>
             /\ pc[i] = "done" => pc'[i] = "done"
        /\ (\E k \in 1..Len(callbacks') : callbacks'[k] = OnCloneComplete)
             => /\ callbacks' = <<OnCloneComplete>>
                /\ \E i \in Calls :
                     /\ pc[i] \in {"clone", "repoInfo", "workspaces"}
                     /\ pc'[i] = "done"
                     /\ \A j \in Calls \ {i} : pc'[j] = pc[j]]_vars

\* Task 1 has ended after its follow-up, with onCloneComplete called in
\* that step, while task 2 has ended before it.
C34_Witness ==
  /\ step = [op |-> "followUpDone", task |-> 1]
  /\ callbacks = <<OnCloneComplete>>
  /\ pc[1] = "done"
  /\ pc[2] = "done"
  /\ cloneState.status # "cloning"

\* C35: when git.clone resolves with success false and an errorCode, the
\* record's errorCode at the end of the step that handles the response is
\* that errorCode.
C35_StructuredErrorCodeKept ==
  [][\A i \in Calls, o \in CloneResolutions :
        /\ pc[i] = "clone" /\ pc'[i] # "clone"
        /\ ~o.success /\ TruthyStr(o.errorCode)
        /\ CloneSettles(i, o)
        => cloneState'.errorCode = o.errorCode]_vars

\* A failed response whose code is not CANCELLED has been handled, nobody
\* cancelled, and the record carries the code CANCELLED that the catch
\* block derived from the error text.
C35_Witness ==
  /\ step.op = "cloneFailed"
  /\ cancelledTasks = {}
  /\ cloneState.taskId = step.task
  /\ cloneState.status = "cancelled"
  /\ cloneState.errorCode = "CANCELLED"
  /\ cloneState.error = MsgCancelledByUser

C37_FinishedTaskEventsIgnored ==
  [][\A p \in Percents :
       /\ \A t \in Calls :
            HandleProgress(t, p) /\ pc[t] = "done" => menu' = menu
       /\ \A t \in Submits :
            SubmitHandleProgress(t, p) /\ lpc[t] = "done" => menu' = menu]_vars

\* No clone is running, and the event of a finished task has brought the
\* cloning indicator back.
C37_Witness ==
  /\ step.op = "submitProgress"
  /\ lpc[step.task] = "done"
  /\ \A i \in Submits : lpc[i] \in {"idle", "done"}
  /\ lTaskIdRef = NoTask
  /\ menu.isCloning
  /\ menu.currentTaskId = step.task

\* C38: withTimeout settles exactly once: with the promise's own outcome
\* if the promise settles before the time elapses, otherwise with a
\* rejection whose message says the operation timed out. In both cases
\* the timer is cleared when the result settles: no timeout callback is
\* pending, and none fires, after the settlement.
C38_TimeoutSettlesOnceAndClears ==
  /\ [](\A k \in Timers :
          LET t == timeouts[k]
          IN /\ Len(t.result) <= 1
             /\ t.called /\ t.result = <<>> => t.timer = "armed" /\ t.promise = <<>>
             /\ t.result # <<>> =>
                  /\ t.timer # "armed"
                  /\ t.timeoutId = NoTimer
                  /\ \/ t.timer = "cleared" /\ t.result = t.promise
                     \/ /\ t.timer = "fired"
                        /\ t.result[1].kind = "rejected"
                        /\ includes(t.result[1].value, <<"t","i","m","e","d"," ","o","u","t">>)
                        /\ t.result[1].value =
                             TimeoutMessage(t.operationName, CLONE_TIMEOUT_MS))
  /\ [][\A k \in Timers :
          timeouts[k].result # <<>> =>
            /\ timeouts'[k].result = timeouts[k].result
            /\ timeouts'[k].timer = timeouts[k].timer]_vars

\* One call settled by its promise with its timer cleared, and one that
\* timed out and whose promise settled afterwards.
C38_Witness ==
  \E j, k \in Timers :
    /\ timeouts[j].timer = "cleared" /\ timeouts[j].result = timeouts[j].promise
    /\ timeouts[j].result # <<>>
    /\ timeouts[k].timer = "fired" /\ timeouts[k].promise # <<>>
    /\ timeouts[k].result[1].value = MsgTimedOut

\* C39: retryWithBackoff always terminates when every call of fn settles:
\* it invokes fn at most maxRetries + 1 times, returns the first success
\* without invoking fn again, and if all maxRetries + 1 invocations fail
\* it throws the error of the last invocation, the very value fn rejected
\* with.
C39_RetryThrowsLastRejection ==
  /\ [](/\ retry.pc # "none" => retry.calls <= retry.maxRetries + 1
        /\ retry.pc = "returned" =>
             /\ retry.outcome = <<[isError |-> FALSE, message |-> <<"o","k">>]>>
             /\ retry.calls = retry.attempt + 1
        /\ retry.pc = "thrown" /\ retry.calls > 0 =>
             /\ retry.calls = retry.maxRetries + 1
             /\ retry.outcome = retry.rejection)
  /\ [][retry.pc \in {"returned", "thrown"} => retry' = retry]_vars
  /\ (retry.pc \in {"fn", "delay"} ~> retry.pc \in {"returned", "thrown"})

\* C39, amended: as above, but what is thrown is the last rejection if it
\* is an Error, and otherwise a new Error whose message is the rejection's
\* text.
C39_RetryThrowsLastRejectionAsError ==
  /\ [](/\ retry.pc # "none" => retry.calls <= retry.maxRetries + 1
        /\ retry.pc = "returned" =>
             /\ retry.outcome = <<[isError |-> FALSE, message |-> <<"o","k">>]>>
             /\ retry.calls = retry.attempt + 1
        /\ retry.pc = "thrown" /\ retry.calls > 0 =>
             /\ retry.calls = retry.maxRetries + 1
             /\ retry.outcome[1].isError
             /\ retry.outcome[1].message = retry.rejection[1].message
             /\ retry.rejection[1].isError => retry.outcome = retry.rejection)
  /\ [][retry.pc \in {"returned", "thrown"} => retry' = retry]_vars
  /\ (retry.pc \in {"fn", "delay"} ~> retry.pc \in {"returned", "thrown"})

\* Every one of MaxRetries + 1 invocations failed, the last with a value
\* that is no Error, and the call threw.
C39_Witness ==
  /\ retry.pc = "thrown"
  /\ retry.maxRetries = MaxRetries
  /\ retry.calls = MaxRetries + 1
  /\ ~retry.rejection[1].isError

\* C40: handleOpenProject always releases its loading state: on every
\* path by which an invocation ends (picker cancelled, duplicate path,
\* backend success, success:false, rejected request, failing workspace
\* listing) isLoading is false afterwards and every loading toast the
\* invocation opened has been closed; and a failure of
\* project.workspaces.list does not undo the addRepo already performed.
C40_OpenProjectReleasesLoading ==
  /\ [](opc = "idle" => ~isLoading /\ loadingToasts = {})
  /\ [][/\ opc # "idle" /\ opc' = "idle" =>
            ~isLoading' /\ loadingToasts' = {} /\ loadingToastId' = NULL
        /\ opc = "workspaces" /\ opc' = "idle" /\ step'.op = "openDoneWarned" =>
            /\ DOMAIN repos \subseteq DOMAIN repos'
            /\ toasts' = <<Toast("Repository added", "success", NoTask)>>]_vars

\* The workspace listing failed after the repository was added: the
\* invocation is over, the repository is there, nothing is loading.
C40_Witness ==
  /\ step.op = "openDoneWarned"
  /\ opc = "idle"
  /\ DOMAIN repos # {}
  /\ ~isLoading
  /\ loadingToasts = {}

====
